---- MODULE Spec2Model ----
(***************************************************************************)
(* A model of goim's search mini-language (imdb/search): the tokenizer     *)
(* queryTokens, the range parser intRange, the query parser New with the   *)
(* directive registry of commands.go, and the sub-search resolver          *)
(* (Results / choose / Pick).                                              *)
(*                                                                         *)
(* Strings are sequences of one-character strings, so that trimming,       *)
(* splitting and integer parsing are computed and not assumed.             *)
(***************************************************************************)
EXTENDS Integers, Sequences, FiniteSets, TLC

VARIABLES
    \* queryTokens (search.go:513-546), one loop iteration per step
    query,        \* the argument
    pos,          \* index of the next rune of the range loop
    tokens,       \* var tokens []string
    buf,          \* var buf []rune
    curlyDepth,   \* curlyDepth := 0
    tpc,          \* "idle" | "loop" | "done"
    \* intRange (search.go:572-605), one call per behaviour
    rin,          \* the arguments [s, min, max]
    rcase,        \* how the argument s was written (input description)
    rout,         \* the returned [start, end, err]
    rpc,          \* "idle" | "call" | "done"
    \* New (search.go:141-254) and NewSearcher (imdb/search.go:86-140)
    nimpl,        \* which of the two parsers is called
    ndesc,        \* the tokens the query is written from (input description)
    nquery,       \* the query string
    nfuzzy,       \* db.IsFuzzyEnabled()
    nret,         \* what the call returned: [s, err, exit]
    npc,          \* "idle" | "call" | "done"
    \* Results, choose and Pick (search.go:268-350)
    scfg,         \* how the top-level Searcher was made (input description)
    top,          \* the Searcher Results or Pick is called on, sub-searches within
    stack,        \* the frames of the running calls, the running one last
    sret,         \* what the call returned to its caller
    spc,          \* "idle" | "call" | "run" | "done" | "panic"
    queried,      \* the Searchers whose query went to the database, in order
    \* sql (search.go:607-671), called on a resolved Searcher
    cin,          \* the tokens and the resolved ids the Searcher is made from
    cs,           \* the Searcher
    compiled,     \* what each call of sql gave, and the arguments of the query
    lcs,          \* the Searcher of the older package for the same query
    lcompiled,    \* what the older sql (imdb/search.go:351-402) gave, if called
    \* listAttrRows and listLines (list.go:60-132), one scanned line per step
    llines,       \* the lines of the list, in order
    lpos,         \* index of the next line the scanner gives
    dataSection,  \* dataSection := false
    current,      \* var current imdb.Atom
    looked,       \* the entities looked up with AtomOnlyIfExist, in order
    lcalls,       \* the calls of do, in order: [id, line, row]
    lpc           \* "idle" | "scan" | "done"

tokVars == <<query, pos, tokens, buf, curlyDepth, tpc>>
rangeVars == <<rin, rcase, rout, rpc>>
parseVars == <<nimpl, ndesc, nquery, nfuzzy, nret, npc>>
resVars == <<scfg, top, stack, sret, spc, queried>>
compVars == <<cin, cs, lcs, compiled, lcompiled>>
listVars == <<llines, lpos, dataSection, current, looked, lcalls, lpc>>

vars == <<tokVars, rangeVars, parseVars, resVars, compVars, listVars>>

----------------------------------------------------------------------------
(* Bounds *)

\* longest query enumerated exhaustively for the tokenizer
MaxLen == 6

\* longest range value enumerated exhaustively for intRange
MaxRangeLen == 4

\* the integers a, b written into range values are in -MaxNum..MaxNum
MaxNum == 12

----------------------------------------------------------------------------
(* Program constants (search.go:15-22) *)

maxYear == 3000
maxRate == 100
maxVotes == 1000000000
maxBilled == 1000000
maxSeason == 1000000
maxEpisode == 1000000

----------------------------------------------------------------------------
(* Strings *)

SP == " "
LB == "{"
RB == "}"

\* all sequences over S of length at most n
SeqsUpTo(S, n) == UNION {[1..k -> S] : k \in 0..n}

\* the runes queryTokens tells apart, and one representative of the default case
TokAlphabet == {"a", SP, LB, RB}

\* "a b {x y z} c", the example of queryTokens' comment
ExampleQuery ==
    <<"a", SP, "b", SP, LB, "x", SP, "y", SP, "z", RB, SP, "c">>

\* "a b {x {y z} w" ends inside an unclosed brace
ExampleUnclosed ==
    <<"a", SP, "b", SP, LB, "x", SP, LB, "y", SP, "z", RB, SP, "w">>

TokQueries == SeqsUpTo(TokAlphabet, MaxLen) \cup {ExampleQuery, ExampleUnclosed}

\* the directive names, sort columns and orders of the source, rune by rune
N_movie == <<"m", "o", "v", "i", "e">>
N_tvshow == <<"t", "v", "s", "h", "o", "w">>
N_episode == <<"e", "p", "i", "s", "o", "d", "e">>
N_actor == <<"a", "c", "t", "o", "r">>
N_debug == <<"d", "e", "b", "u", "g">>
N_year == <<"y", "e", "a", "r">>
N_years == <<"y", "e", "a", "r", "s">>
N_rank == <<"r", "a", "n", "k">>
N_rate == <<"r", "a", "t", "e">>
N_rating == <<"r", "a", "t", "i", "n", "g">>
N_votes == <<"v", "o", "t", "e", "s">>
N_billing == <<"b", "i", "l", "l", "i", "n", "g">>
N_billed == <<"b", "i", "l", "l", "e", "d">>
N_s == <<"s">>
N_season == <<"s", "e", "a", "s", "o", "n">>
N_seasons == <<"s", "e", "a", "s", "o", "n", "s">>
N_e == <<"e">>
N_episodes == <<"e", "p", "i", "s", "o", "d", "e", "s">>
N_notv == <<"n", "o", "t", "v">>
N_novideo == <<"n", "o", "v", "i", "d", "e", "o">>
N_tv == <<"t", "v">>
N_limit == <<"l", "i", "m", "i", "t">>
N_sort == <<"s", "o", "r", "t">>
N_credits == <<"c", "r", "e", "d", "i", "t", "s">>
N_cast == <<"c", "a", "s", "t">>
N_show == <<"s", "h", "o", "w">>
N_id == <<"i", "d">>
N_atom == <<"a", "t", "o", "m">>
N_asc == <<"a", "s", "c">>
N_desc == <<"d", "e", "s", "c">>
N_entity == <<"e", "n", "t", "i", "t", "y">>
N_atom_id == <<"a", "t", "o", "m", "_", "i", "d">>
N_name == <<"n", "a", "m", "e">>
N_attrs == <<"a", "t", "t", "r", "s">>
N_similarity == <<"s", "i", "m", "i", "l", "a", "r", "i", "t", "y">>
N_episode_num == <<"e", "p", "i", "s", "o", "d", "e", "_", "n", "u", "m">>
N_title == <<"t", "i", "t", "l", "e">>

----------------------------------------------------------------------------
(* queryTokens *)

\* queryTokens' loop body with the depth test of the space case dropped
TokStepSplitsInBraces(st, r) ==
    CASE r = SP ->
           [st EXCEPT !.tokens = IF Len(st.buf) > 0
                                   THEN Append(st.tokens, st.buf)
                                   ELSE st.tokens,
                      !.buf = <<>>]
      [] r = LB ->
           [st EXCEPT !.curlyDepth = st.curlyDepth + 1,
                      !.buf = Append(st.buf, r)]
      [] r = RB ->
           IF st.curlyDepth - 1 = 0
             THEN [st EXCEPT !.curlyDepth = 0,
                             !.tokens = Append(st.tokens, Append(st.buf, r)),
                             !.buf = <<>>]
             ELSE [st EXCEPT !.curlyDepth = st.curlyDepth - 1,
                             !.buf = Append(st.buf, r)]
      [] OTHER ->
           [st EXCEPT !.buf = Append(st.buf, r)]

\* queryTokens' loop body with the "len(buf) > 0" test of the space case dropped
TokStepAppendsEmpty(st, r) ==
    CASE r = SP ->
           IF st.curlyDepth = 0
             THEN [st EXCEPT !.tokens = Append(st.tokens, st.buf),
                             !.buf = <<>>]
             ELSE [st EXCEPT !.buf = Append(st.buf, r)]
      [] r = LB ->
           [st EXCEPT !.curlyDepth = st.curlyDepth + 1,
                      !.buf = Append(st.buf, r)]
      [] r = RB ->
           IF st.curlyDepth - 1 = 0
             THEN [st EXCEPT !.curlyDepth = 0,
                             !.tokens = Append(st.tokens, Append(st.buf, r)),
                             !.buf = <<>>]
             ELSE [st EXCEPT !.curlyDepth = st.curlyDepth - 1,
                             !.buf = Append(st.buf, r)]
      [] OTHER ->
           [st EXCEPT !.buf = Append(st.buf, r)]

\* the loop body of queryTokens: one rune r against the state st
TokStep(st, r) ==
    CASE r = SP ->
           IF st.curlyDepth = 0
             THEN [st EXCEPT !.tokens = IF Len(st.buf) > 0
                                          THEN Append(st.tokens, st.buf)
                                          ELSE st.tokens,
                             !.buf = <<>>]
             ELSE [st EXCEPT !.buf = Append(st.buf, r)]
      [] r = LB ->
           [st EXCEPT !.curlyDepth = st.curlyDepth + 1,
                      !.buf = Append(st.buf, r)]
      [] r = RB ->
           IF st.curlyDepth - 1 = 0
             THEN [st EXCEPT !.curlyDepth = 0,
                             !.tokens = Append(st.tokens, Append(st.buf, r)),
                             !.buf = <<>>]
             ELSE [st EXCEPT !.curlyDepth = st.curlyDepth - 1,
                             !.buf = Append(st.buf, r)]
      [] OTHER ->
           [st EXCEPT !.buf = Append(st.buf, r)]

\* the final flush done only when the braces are balanced
TokFlushBalancedOnly(st) ==
    IF Len(st.buf) > 0 /\ st.curlyDepth = 0
      THEN Append(st.tokens, st.buf)
      ELSE st.tokens

\* the flush after the loop
TokFlush(st) ==
    IF Len(st.buf) > 0 THEN Append(st.tokens, st.buf) ELSE st.tokens

RECURSIVE TokLoop(_, _, _)
TokLoop(q, k, st) ==
    IF k > Len(q) THEN st ELSE TokLoop(q, k + 1, TokStep(st, q[k]))

TokStart == [tokens |-> <<>>, buf |-> <<>>, curlyDepth |-> 0]

\* queryTokens as a function of the query
queryTokens(q) == TokFlush(TokLoop(q, 1, TokStart))

TokState == [tokens |-> tokens, buf |-> buf, curlyDepth |-> curlyDepth]

TokIdle ==
    /\ query = <<>>
    /\ pos = 0
    /\ tokens = <<>>
    /\ buf = <<>>
    /\ curlyDepth = 0
    /\ tpc = "idle"

TokInit ==
    /\ query \in TokQueries
    /\ pos = 1
    /\ tokens = <<>>
    /\ buf = <<>>
    /\ curlyDepth = 0
    /\ tpc = "loop"

\* one iteration of "for _, r := range query"
TokRune ==
    /\ tpc = "loop"
    /\ pos <= Len(query)
    /\ LET st == TokStep(TokState, query[pos])
       IN /\ tokens' = st.tokens
          /\ buf' = st.buf
          /\ curlyDepth' = st.curlyDepth
    /\ pos' = pos + 1
    /\ UNCHANGED <<query, tpc, rangeVars, parseVars, resVars, compVars, listVars>>

\* the end of the loop: the final flush and the return
TokReturn ==
    /\ tpc = "loop"
    /\ pos > Len(query)
    /\ tokens' = TokFlush(TokState)
    /\ tpc' = "done"
    /\ UNCHANGED <<query, pos, buf, curlyDepth, rangeVars, parseVars, resVars, compVars, listVars>>

TokNext == TokRune \/ TokReturn

----------------------------------------------------------------------------
(* strings.TrimSpace, strings.Index, strconv.Atoi as intRange and argOption
   use them *)

Digits == {"0", "1", "2", "3", "4", "5", "6", "7", "8", "9"}

DigitVal(c) ==
    CASE c = "0" -> 0 [] c = "1" -> 1 [] c = "2" -> 2 [] c = "3" -> 3
      [] c = "4" -> 4 [] c = "5" -> 5 [] c = "6" -> 6 [] c = "7" -> 7
      [] c = "8" -> 8 [] c = "9" -> 9

\* strings.TrimSpace (the only white space of the model is the space)
RECURSIVE TrimLeft(_)
TrimLeft(str) ==
    IF str # <<>> /\ Head(str) = SP THEN TrimLeft(Tail(str)) ELSE str

RECURSIVE TrimRight(_)
TrimRight(str) ==
    IF str # <<>> /\ str[Len(str)] = SP
      THEN TrimRight(SubSeq(str, 1, Len(str) - 1))
      ELSE str

TrimSpace(str) == TrimRight(TrimLeft(str))

\* strings.Index(str, c) for a one-rune c, 1-based; 0 when c is absent
Index(str, c) ==
    IF \E k \in 1..Len(str) : str[k] = c
      THEN CHOOSE k \in 1..Len(str) :
               str[k] = c /\ \A m \in 1..(k - 1) : str[m] # c
      ELSE 0

\* the last occurrence instead of the first
LastIndex(str, c) ==
    IF \E k \in 1..Len(str) : str[k] = c
      THEN CHOOSE k \in 1..Len(str) :
               str[k] = c /\ \A m \in (k + 1)..Len(str) : str[m] # c
      ELSE 0

Contains(str, c) == Index(str, c) > 0

RECURSIVE DigitsVal(_)
DigitsVal(ds) ==
    IF ds = <<>> THEN 0
    ELSE 10 * DigitsVal(SubSeq(ds, 1, Len(ds) - 1)) + DigitVal(ds[Len(ds)])

\* strconv.Atoi: an optional sign, then one or more decimal digits
Atoi(str) ==
    LET signed == str # <<>> /\ str[1] \in {"+", "-"}
        ds == IF signed THEN Tail(str) ELSE str
    IN IF ds = <<>> \/ \E k \in 1..Len(ds) : ds[k] \notin Digits
         THEN [ok |-> FALSE, n |-> 0]
         ELSE [ok |-> TRUE,
               n |-> IF signed /\ str[1] = "-" THEN 0 - DigitsVal(ds)
                     ELSE DigitsVal(ds)]

----------------------------------------------------------------------------
(* intRange *)

\* an error value: its format string, the text it names, the wrapped error
\* (a sequence of zero or one errors); NoErr is the nil error
Err(m, txt, in) == [msg |-> m, text |-> txt, inner |-> in]
NoErr == Err("nil", <<>>, <<>>)

RangeErr(txt) ==
    [start |-> 0, end |-> 0, err |-> Err("Could not parse '%s' as integer", txt, <<>>)]

\* intRange splitting on the last '-' instead of the first
intRangeSplitLast(s, min, max) ==
    LET t == TrimSpace(s)
        i == LastIndex(t, "-")
        p0 == TrimSpace(SubSeq(t, 1, i - 1))
        p1 == TrimSpace(SubSeq(t, i + 1, Len(t)))
    IN IF Len(t) = 0 THEN [start |-> min, end |-> max, err |-> NoErr]
       ELSE IF ~Contains(t, "-")
         THEN IF ~Atoi(t).ok THEN RangeErr(t)
              ELSE [start |-> Atoi(t).n, end |-> Atoi(t).n, err |-> NoErr]
       ELSE IF Len(p0) > 0 /\ ~Atoi(p0).ok THEN RangeErr(p0)
       ELSE IF Len(p1) > 0 /\ ~Atoi(p1).ok THEN RangeErr(p1)
       ELSE [start |-> IF Len(p0) > 0 THEN Atoi(p0).n ELSE min,
             end |-> IF Len(p1) > 0 THEN Atoi(p1).n ELSE max,
             err |-> NoErr]

\* intRange(s, min, max): the returned (start, end, err)
intRange(s, min, max) ==
    LET t == TrimSpace(s)
        i == Index(t, "-")
        \* strings.SplitN(s, "-", 2), each piece trimmed
        p0 == TrimSpace(SubSeq(t, 1, i - 1))
        p1 == TrimSpace(SubSeq(t, i + 1, Len(t)))
    IN IF Len(t) = 0 THEN [start |-> min, end |-> max, err |-> NoErr]
       ELSE IF ~Contains(t, "-")
         THEN IF ~Atoi(t).ok THEN RangeErr(t)
              ELSE [start |-> Atoi(t).n, end |-> Atoi(t).n, err |-> NoErr]
       ELSE IF Len(p0) > 0 /\ ~Atoi(p0).ok THEN RangeErr(p0)
       ELSE IF Len(p1) > 0 /\ ~Atoi(p1).ok THEN RangeErr(p1)
       ELSE [start |-> IF Len(p0) > 0 THEN Atoi(p0).n ELSE min,
             end |-> IF Len(p1) > 0 THEN Atoi(p1).n ELSE max,
             err |-> NoErr]

\* the decimal numeral of n, as strconv.Itoa writes it
RECURSIVE Dec(_)
Dec(n) ==
    IF n < 0 THEN <<"-">> \o Dec(0 - n)
    ELSE IF n < 10 THEN <<CHOOSE c \in Digits : DigitVal(c) = n>>
    ELSE Append(Dec(n \div 10), CHOOSE c \in Digits : DigitVal(c) = n % 10)

Spaces(n) == [k \in 1..n |-> SP]

\* the range value a case describes: form is one of
\* "empty", "-", "a", "a-", "-b", "a-b"; pad gives the spaces put around the parts
RangeText(c) ==
    LET l == Spaces(c.pad[1])  m1 == Spaces(c.pad[2])
        m2 == Spaces(c.pad[3]) r == Spaces(c.pad[4])
    IN CASE c.form = "empty" -> l
         [] c.form = "-"     -> l \o <<"-">> \o r
         [] c.form = "a"     -> l \o Dec(c.a) \o r
         [] c.form = "a-"    -> l \o Dec(c.a) \o m1 \o <<"-">> \o r
         [] c.form = "-b"    -> l \o <<"-">> \o m2 \o Dec(c.b) \o r
         [] c.form = "a-b"   -> l \o Dec(c.a) \o m1 \o <<"-">> \o m2 \o Dec(c.b) \o r

Nums == (0 - MaxNum)..MaxNum
Pads == [1..4 -> 0..1]

RangeCases ==
    [form : {"empty", "-"}, a : {0}, b : {0}, pad : Pads]
    \cup [form : {"a", "a-"}, a : Nums, b : {0}, pad : Pads]
    \cup [form : {"-b"}, a : {0}, b : Nums, pad : Pads]
    \cup [form : {"a-b"}, a : Nums, b : Nums, pad : {p \in Pads : p[1] = 0 /\ p[4] = 0}]

\* a range value not written from a case: any text over these runes
RangeAlphabet == {"1", "2", "-", SP, "x"}
RawCase == [form |-> "raw", a |-> 0, b |-> 0, pad |-> [k \in 1..4 |-> 0]]

\* the open-ended maxima New and the registry pass (min is always 0)
RangeMaxima == {maxYear, maxRate, maxVotes, maxBilled, maxSeason, maxEpisode}

RangeIdle ==
    /\ rin = [s |-> <<>>, min |-> 0, max |-> 0]
    /\ rcase = RawCase
    /\ rout = [start |-> 0, end |-> 0, err |-> NoErr]
    /\ rpc = "idle"

RangeInit ==
    /\ \/ /\ rcase \in RangeCases
          /\ \E mx \in {maxYear, maxRate} :
                rin = [s |-> RangeText(rcase), min |-> 0, max |-> mx]
       \/ /\ rcase = RawCase
          /\ \E str \in SeqsUpTo(RangeAlphabet, MaxRangeLen), mx \in RangeMaxima :
                rin = [s |-> str, min |-> 0, max |-> mx]
    /\ rout = [start |-> 0, end |-> 0, err |-> NoErr]
    /\ rpc = "call"

\* the call intRange(s, min, max) and its return
IntRangeCall ==
    /\ rpc = "call"
    /\ rout' = intRange(rin.s, rin.min, rin.max)
    /\ rpc' = "done"
    /\ UNCHANGED <<rin, rcase, tokVars, parseVars, resVars, compVars, listVars>>

RangeNext == IntRangeCall

----------------------------------------------------------------------------
(* The Searcher and its builder methods (search.go:91-139, 365-507) *)

\* a pointer that may be nil: <<>> is nil, <<x>> points to x
Nil == <<>>
Ptr(x) == <<x>>

\* the defaults New sets (search.go:145-146); the threshold 0.25 is kept in
\* hundredths, as every similarity of the model is
defaultLimit == 30
defaultGoodThreshold == 25

\* imdb.Entities: the entity kind each bare entity name stands for
Entities ==
    (N_movie :> "movie") @@ (N_tvshow :> "tvshow")
    @@ (N_episode :> "episode") @@ (N_actor :> "actor")

\* the Searcher New starts from (search.go:142-148)
EmptySearcher(fz) ==
    [fuzzy |-> fz, name |-> <<>>, what |-> "entity", debug |-> FALSE,
     entities |-> <<>>, order |-> <<>>, limit |-> defaultLimit,
     goodThreshold |-> defaultGoodThreshold, chooser |-> "nil",
     subMovie |-> Nil, subTvshow |-> Nil, subEpisode |-> Nil, subActor |-> Nil,
     year |-> Nil, rating |-> Nil, votes |-> Nil, season |-> Nil,
     episode |-> Nil, billing |-> Nil,
     noTvMovie |-> FALSE, noVideoMovie |-> FALSE]

irange(mn, mx) == [min |-> mn, max |-> mx]

Entity(s, e) == [s EXCEPT !.entities = Append(@, e)]
Years(s, mn, mx) == [s EXCEPT !.year = Ptr(irange(mn, mx))]
Seasons(s, mn, mx) == [s EXCEPT !.season = Ptr(irange(mn, mx))]
Episodes(s, mn, mx) == [s EXCEPT !.episode = Ptr(irange(mn, mx))]
Ratings(s, mn, mx) == [s EXCEPT !.rating = Ptr(irange(mn, mx))]
Votes(s, mn, mx) == [s EXCEPT !.votes = Ptr(irange(mn, mx))]
Billed(s, mn, mx) == [s EXCEPT !.billing = Ptr(irange(mn, mx))]
NoTvMovies(s) == [s EXCEPT !.noTvMovie = TRUE]
NoVideoMovies(s) == [s EXCEPT !.noVideoMovie = TRUE]
Limit(s, n) == [s EXCEPT !.limit = n]
Sort(s, column, order) ==
    [s EXCEPT !.order = Append(@, [column |-> column, order |-> order])]

\* &subsearch{sub, 0}
subsearch(sub) == Ptr([s |-> sub, id |-> 0])

Movie(s, movies) ==
    [s EXCEPT !.subMovie = subsearch([Entity(movies, "movie") EXCEPT !.what = "movie"])]
Tvshow(s, tvs) ==
    [s EXCEPT !.subTvshow = subsearch([Entity(tvs, "tvshow") EXCEPT !.what = "TV show"])]
Episode(s, episodes) ==
    [s EXCEPT !.subEpisode =
        subsearch([Entity(episodes, "episode") EXCEPT !.what = "episode"])]
Actor(s, actors) ==
    [s EXCEPT !.subActor = subsearch([Entity(actors, "actor") EXCEPT !.what = "actor"])]

----------------------------------------------------------------------------
(* argOption, strings.Fields, strings.Join, defaultOrders *)

\* argOption(arg): the name and value of '{name[:val]}', both empty otherwise
argOption(arg) ==
    IF Len(arg) < 3 THEN [name |-> <<>>, val |-> <<>>]
    ELSE IF arg[1] # LB \/ arg[Len(arg)] # RB THEN [name |-> <<>>, val |-> <<>>]
    ELSE LET in == SubSeq(arg, 2, Len(arg) - 1)
             sep == Index(in, ":")
         IN IF sep = 0
              THEN [name |-> TrimSpace(in), val |-> <<>>]
              ELSE [name |-> TrimSpace(SubSeq(in, 1, sep - 1)),
                    val |-> TrimSpace(SubSeq(in, sep + 1, Len(in)))]

\* strings.Fields: the maximal runs of non-space runes
RECURSIVE FieldsFrom(_, _, _)
FieldsFrom(str, k, cur) ==
    IF k > Len(str) THEN (IF cur = <<>> THEN <<>> ELSE <<cur>>)
    ELSE IF str[k] = SP
      THEN (IF cur = <<>> THEN <<>> ELSE <<cur>>) \o FieldsFrom(str, k + 1, <<>>)
      ELSE FieldsFrom(str, k + 1, Append(cur, str[k]))

Fields(str) == FieldsFrom(str, 1, <<>>)

\* strings.Join(parts, " ")
RECURSIVE Join(_)
Join(parts) ==
    IF parts = <<>> THEN <<>>
    ELSE IF Len(parts) = 1 THEN parts[1]
    ELSE parts[1] \o <<SP>> \o Join(Tail(parts))

\* strings.ContainsAny(str, "%_")
HasWildcard(str) == \E k \in 1..Len(str) : str[k] \in {"%", "_"}

\* defaultOrders with "billing" descending
defaultOrdersBillingDesc ==
    (N_entity :> N_asc) @@ (N_atom_id :> N_asc) @@ (N_name :> N_asc)
    @@ (N_year :> N_desc) @@ (N_attrs :> N_asc) @@ (N_similarity :> N_desc)
    @@ (N_season :> N_asc) @@ (N_episode_num :> N_asc)
    @@ (N_rank :> N_desc) @@ (N_votes :> N_desc) @@ (N_billing :> N_desc)

\* defaultOrders (search.go:32-41)
defaultOrders ==
    (N_entity :> N_asc) @@ (N_atom_id :> N_asc) @@ (N_name :> N_asc)
    @@ (N_year :> N_desc) @@ (N_attrs :> N_asc) @@ (N_similarity :> N_desc)
    @@ (N_season :> N_asc) @@ (N_episode_num :> N_asc)
    @@ (N_rank :> N_desc) @@ (N_votes :> N_desc) @@ (N_billing :> N_asc)

\* the sort directive (search.go:228-242, commands.go:248-265)
sortAdd(s, val) ==
    LET fields == Fields(val)
        order == IF Len(fields) > 1 THEN fields[2]
                 ELSE IF fields[1] \in DOMAIN defaultOrders
                   THEN defaultOrders[fields[1]]
                   ELSE N_asc
    IN IF Len(fields) = 0 \/ Len(fields) > 2
         THEN [s |-> s, err |-> Err("Invalid sort format: '%s'", val, <<>>)]
         ELSE [s |-> Sort(s, fields[1], order), err |-> NoErr]

\* the limit directive (search.go:222-227, commands.go:231-238)
limitAdd(s, val) ==
    IF ~Atoi(val).ok
      THEN [s |-> s, err |-> Err("Invalid integer '%s' for limit: %s", val, <<>>)]
      ELSE [s |-> Limit(s, Atoi(val).n), err |-> NoErr]

\* a range directive: intRange(val, 0, max), then the setter (search.go:167-202;
\* addRange, commands.go:38-45)
Setter(dim, s, mn, mx) ==
    CASE dim = "year" -> Years(s, mn, mx)
      [] dim = "rating" -> Ratings(s, mn, mx)
      [] dim = "votes" -> Votes(s, mn, mx)
      [] dim = "billing" -> Billed(s, mn, mx)
      [] dim = "season" -> Seasons(s, mn, mx)
      [] dim = "episode" -> Episodes(s, mn, mx)

addRange(s, v, max, dim) ==
    LET r == intRange(v, 0, max)
    IN IF r.err # NoErr THEN [s |-> s, err |-> r.err]
       ELSE [s |-> Setter(dim, s, r.start, r.end), err |-> NoErr]

----------------------------------------------------------------------------
(* New (search.go:141-254) and subSearcher (search.go:256-265) *)

subsearches == {N_movie, N_tv, N_tvshow, N_episode, N_actor}
isSubSearch(name) == name \in subsearches

RECURSIVE New(_, _)
RECURSIVE NewLoop(_, _, _, _, _)
RECURSIVE NewArg(_, _, _)
RECURSIVE subSearcher(_, _, _)

\* subSearcher(name, query): the sub-searcher New builds, or the error
subSearcher(fz, name, q) ==
    IF Len(q) = 0
      THEN [s |-> Nil, err |-> Err("No query found for '%s'.", name, <<>>)]
      ELSE LET sub == New(fz, q)
           IN IF sub.err # NoErr
                THEN [s |-> Nil,
                      err |-> Err("Error with sub-search for %s: %s", name, <<sub.err>>)]
                ELSE sub

\* the switch on the sub-search name (search.go:212-221)
AttachSub(s, name, sub) ==
    CASE name = N_movie -> Movie(s, sub)
      [] name \in {N_tv, N_tvshow} -> Tvshow(s, sub)
      [] name = N_episode -> Episode(s, sub)
      [] name = N_actor -> Actor(s, sub)

\* one iteration of New's loop over the tokens: the if-else chain on the
\* directive name; free tells that the token joins the name query
NewArg(fz, s, arg) ==
    LET o == argOption(arg)
        name == o.name
        val == o.val
        done(r) == [s |-> r.s, err |-> r.err, free |-> FALSE]
        ok(t) == [s |-> t, err |-> NoErr, free |-> FALSE]
    IN IF Len(val) = 0 /\ name \in DOMAIN Entities THEN ok(Entity(s, Entities[name]))
       ELSE IF name = N_debug THEN ok([s EXCEPT !.debug = TRUE])
       ELSE IF name \in {N_year, N_years} THEN done(addRange(s, val, maxYear, "year"))
       ELSE IF name \in {N_rank, N_rate, N_rating}
         THEN done(addRange(s, val, maxRate, "rating"))
       ELSE IF name = N_votes THEN done(addRange(s, val, maxVotes, "votes"))
       ELSE IF name \in {N_billing, N_billed}
         THEN done(addRange(s, val, maxBilled, "billing"))
       ELSE IF name \in {N_s, N_season, N_seasons}
         THEN done(addRange(s, val, maxSeason, "season"))
       ELSE IF name \in {N_e, N_episodes}
         THEN done(addRange(s, val, maxEpisode, "episode"))
       ELSE IF name = N_notv THEN ok(NoTvMovies(s))
       ELSE IF name = N_novideo THEN ok(NoVideoMovies(s))
       ELSE IF isSubSearch(name)
         THEN LET sub == subSearcher(fz, name, val)
              IN IF sub.err # NoErr
                   THEN [s |-> s, err |-> sub.err, free |-> FALSE]
                   ELSE ok(AttachSub(s, name, sub.s[1]))
       ELSE IF name = N_limit THEN done(limitAdd(s, val))
       ELSE IF name = N_sort THEN done(sortAdd(s, val))
       ELSE [s |-> s, err |-> NoErr, free |-> TRUE]

\* the loop of New from token k on, and what New returns after it
NewLoop(fz, toks, k, s, qname) ==
    IF k > Len(toks)
      THEN LET nm == Join(qname)
           IN [s |-> Ptr([s EXCEPT !.name = nm,
                                   !.fuzzy = IF HasWildcard(nm) THEN FALSE ELSE @]),
               err |-> NoErr]
      ELSE LET r == NewArg(fz, s, toks[k])
           IN IF r.err # NoErr THEN [s |-> Nil, err |-> r.err]
              ELSE NewLoop(fz, toks, k + 1, r.s,
                           IF r.free THEN Append(qname, toks[k]) ELSE qname)

\* New(db, query): fz is db.IsFuzzyEnabled(); the result is (Searcher, error)
New(fz, q) == NewLoop(fz, queryTokens(q), 1, EmptySearcher(fz), <<>>)

----------------------------------------------------------------------------
(* The older parser of package imdb: NewSearcher (imdb/search.go:86-140).  Its
   intRange (imdb/search.go:316-349) reports a parse failure through fatalf
   and has no error result. *)

legacyDefaultOrders ==
    (N_year :> N_desc) @@ (N_rating :> N_desc) @@ (N_similarity :> N_desc)
    @@ (N_title :> N_asc) @@ (N_entity :> N_asc)
    @@ (N_season :> N_asc) @@ (N_episode_num :> N_asc)

LegacyEmptySearcher(fz) ==
    [fuzzy |-> fz, name |-> <<>>, entities |-> <<>>, order |-> <<>>,
     limit |-> defaultLimit, chooser |-> "nil", tvshow |-> Nil,
     year |-> Nil, rating |-> Nil, season |-> Nil, episode |-> Nil]

\* Entity of imdb/search.go:181-187: no effect once a TV show sub-search is set
LegacyEntity(s, e) ==
    IF s.tvshow # Nil THEN s ELSE [s EXCEPT !.entities = Append(@, e)]

\* Tvshow of imdb/search.go:224-229
LegacyTvshow(s, tvs) ==
    [s EXCEPT !.tvshow = subsearch(LegacyEntity(tvs, "tvshow")),
              !.entities = <<"episode">>]

\* the older intRange: the same parse, fatalf where the newer returns an error
legacyIntRange(str, min, max) ==
    LET r == intRange(str, min, max)
    IN [start |-> r.start, end |-> r.end, fatal |-> r.err # NoErr]

RECURSIVE NewSearcher(_, _)
RECURSIVE LegacyLoop(_, _, _, _, _)
RECURSIVE LegacyArg(_, _, _)

\* one iteration of NewSearcher's loop; exit tells that fatalf ended the process
LegacyArg(fz, s, arg) ==
    LET o == argOption(arg)
        name == o.name
        val == o.val
        ok(t) == [s |-> t, err |-> NoErr, free |-> FALSE, exit |-> FALSE]
        fail(e) == [s |-> s, err |-> e, free |-> FALSE, exit |-> FALSE]
        range(max, dim) ==
            LET r == legacyIntRange(val, 0, max)
            IN IF r.fatal
                 THEN [s |-> s, err |-> NoErr, free |-> FALSE, exit |-> TRUE]
                 ELSE ok(Setter(dim, s, r.start, r.end))
        fields == Fields(val)
    IN IF Len(val) = 0 /\ name \in DOMAIN Entities
         THEN ok(LegacyEntity(s, Entities[name]))
       ELSE IF name \in {N_year, N_years} THEN range(maxYear, "year")
       ELSE IF name \in {N_s, N_season, N_seasons} THEN range(maxSeason, "season")
       ELSE IF name \in {N_e, N_episode, N_episodes} THEN range(maxEpisode, "episode")
       ELSE IF name \in {N_tv, N_tvshow}
         THEN IF Len(val) = 0
                THEN fail(Err("No query found for '%s'.", name, <<>>))
                ELSE LET tvs == NewSearcher(fz, val)
                     IN IF tvs.exit
                          THEN [s |-> s, err |-> NoErr, free |-> FALSE, exit |-> TRUE]
                        ELSE IF tvs.err # NoErr
                          THEN fail(Err("Error with sub-search for '%s': %s",
                                        name, <<tvs.err>>))
                        ELSE ok(LegacyTvshow(s, tvs.s[1]))
       ELSE IF name = N_limit
         THEN IF ~Atoi(val).ok
                THEN fail(Err("Invalid integer '%s' for limit: %s", val, <<>>))
                ELSE ok(Limit(s, Atoi(val).n))
       ELSE IF name = N_sort
         THEN IF Len(fields) = 0 \/ Len(fields) > 2
                THEN fail(Err("Invalid sort format: '%s'", val, <<>>))
                ELSE ok(Sort(s, fields[1],
                             IF Len(fields) > 1 THEN fields[2]
                             ELSE IF fields[1] \in DOMAIN legacyDefaultOrders
                               THEN legacyDefaultOrders[fields[1]]
                               ELSE N_asc))
       ELSE [s |-> s, err |-> NoErr, free |-> TRUE, exit |-> FALSE]

LegacyLoop(fz, toks, k, s, qname) ==
    IF k > Len(toks)
      THEN [s |-> Ptr([s EXCEPT !.name = Join(qname)]), err |-> NoErr, exit |-> FALSE]
      ELSE LET r == LegacyArg(fz, s, toks[k])
           IN IF r.exit THEN [s |-> Nil, err |-> NoErr, exit |-> TRUE]
              ELSE IF r.err # NoErr THEN [s |-> Nil, err |-> r.err, exit |-> FALSE]
              ELSE LegacyLoop(fz, toks, k + 1, r.s,
                              IF r.free THEN Append(qname, toks[k]) ELSE qname)

\* NewSearcher(db, query): (Searcher, error), or the process has exited
NewSearcher(fz, q) == LegacyLoop(fz, queryTokens(q), 1, LegacyEmptySearcher(fz), <<>>)

----------------------------------------------------------------------------
(* The directive registry (commands.go:68-282) *)

\* the name and the synonyms of each command of init's table, in its order
commands ==
    << [name |-> N_movie, synonyms |-> {}],
       [name |-> N_tvshow, synonyms |-> {}],
       [name |-> N_episode, synonyms |-> {}],
       [name |-> N_actor, synonyms |-> {}],
       [name |-> N_credits, synonyms |-> {}],
       [name |-> N_cast, synonyms |-> {}],
       [name |-> N_show, synonyms |-> {}],
       [name |-> N_debug, synonyms |-> {}],
       [name |-> N_id, synonyms |-> {N_atom}],
       [name |-> N_years, synonyms |-> {N_year}],
       [name |-> N_rank, synonyms |-> {}],
       [name |-> N_votes, synonyms |-> {}],
       [name |-> N_billed, synonyms |-> {N_billing}],
       [name |-> N_seasons, synonyms |-> {N_s}],
       [name |-> N_episodes, synonyms |-> {N_e}],
       [name |-> N_notv, synonyms |-> {}],
       [name |-> N_novideo, synonyms |-> {}],
       [name |-> N_limit, synonyms |-> {}],
       [name |-> N_sort, synonyms |-> {}] >>

\* allCommands as init fills it: every name and synonym keyed to its command
allCommandKeys ==
    UNION {{commands[k].name} \cup commands[k].synonyms : k \in 1..Len(commands)}

allCommands ==
    [key \in allCommandKeys |->
        LET k == CHOOSE k \in 1..Len(commands) :
                     key = commands[k].name \/ key \in commands[k].synonyms
        IN commands[k].name]

\* addSub(s, name, v, add) (commands.go:47-54), for the add of a role
addSub(fz, s, name, v, role) ==
    LET sub == subSearcher(fz, name, v)
    IN IF sub.err # NoErr THEN [s |-> s, err |-> sub.err]
       ELSE [s |-> AttachSub(s, role, sub.s[1]), err |-> NoErr]

----------------------------------------------------------------------------
(* The queries given to the parsers *)

\* ""
V_empty == <<>>
\* "1"
V_1 == <<"1">>
\* "1-2"
V_1to2 == <<"1", "-", "2">>
\* "x"
V_x == <<"x">>
\* "1-x"
V_1tox == <<"1", "-", "x">>
\* "year"
V_year == <<"y", "e", "a", "r">>
\* "year desc"
V_yeardesc == <<"y", "e", "a", "r", " ", "d", "e", "s", "c">>
\* "a b c"
V_abc == <<"a", " ", "b", " ", "c">>
\* "{s:x}"
V_subbadrange == <<"{", "s", ":", "x", "}">>
\* "{tv:{limit:x}} a"
V_subsubbadlimit == <<"{", "t", "v", ":", "{", "l", "i", "m", "i", "t", ":", "x", "}", "}", " ", "a">>
\* "{s:1} a"
V_subok == <<"{", "s", ":", "1", "}", " ", "a">>
\* "{sort:a b c}"
V_subbadsort == <<"{", "s", "o", "r", "t", ":", "a", " ", "b", " ", "c", "}">>
\* "{movie:}"
V_subemptymovie == <<"{", "m", "o", "v", "i", "e", ":", "}">>

\* sort columns, as values
\* "billing"
V_billing == <<"b", "i", "l", "l", "i", "n", "g">>

\* "rating"
V_rating == <<"r", "a", "t", "i", "n", "g">>

\* "votes"
V_votes == <<"v", "o", "t", "e", "s">>

\* "title"
V_title == <<"t", "i", "t", "l", "e">>

\* "name"
V_name == <<"n", "a", "m", "e">>

\* "entity"
V_entity == <<"e", "n", "t", "i", "t", "y">>

\* "rank"
V_rank == <<"r", "a", "n", "k">>

\* a directive value with what is wrong with it: as a range (a non-numeric
\* fragment), as a limit (not an integer), as a sort (no field, or more than
\* two), as a sub-search query (a directive in it fails, at any depth)
Val(t, r, l, so, su) ==
    [text |-> t, badRange |-> r, badLimit |-> l, badSort |-> so, badSub |-> su]

Values ==
    { Val(V_empty, FALSE, TRUE, TRUE, FALSE),
      Val(V_1, FALSE, FALSE, FALSE, FALSE),
      Val(V_1to2, FALSE, TRUE, FALSE, FALSE),
      Val(V_x, TRUE, TRUE, FALSE, FALSE),
      Val(V_1tox, TRUE, TRUE, FALSE, FALSE),
      Val(V_year, TRUE, TRUE, FALSE, FALSE),
      Val(V_yeardesc, TRUE, TRUE, FALSE, FALSE),
      Val(V_abc, TRUE, TRUE, TRUE, FALSE),
      Val(V_subbadrange, TRUE, TRUE, FALSE, TRUE),
      Val(V_subsubbadlimit, TRUE, TRUE, FALSE, TRUE),
      Val(V_subok, TRUE, TRUE, FALSE, FALSE),
      Val(V_subbadsort, TRUE, TRUE, TRUE, TRUE),
      Val(V_subemptymovie, TRUE, TRUE, FALSE, FALSE),
      Val(V_billing, TRUE, TRUE, FALSE, FALSE),
      Val(V_rating, TRUE, TRUE, FALSE, FALSE),
      Val(V_votes, TRUE, TRUE, FALSE, FALSE),
      Val(V_title, TRUE, TRUE, FALSE, FALSE),
      Val(V_name, TRUE, TRUE, FALSE, FALSE),
      Val(V_entity, TRUE, TRUE, FALSE, FALSE),
      Val(V_rank, TRUE, TRUE, FALSE, FALSE) }

\* "zz", a name that is no directive
N_zz == <<"z", "z">>

DirNames ==
    { N_movie, N_tvshow, N_episode, N_actor, N_debug, N_year, N_years, N_rank,
      N_rate, N_rating, N_votes, N_billing, N_billed, N_s, N_season, N_seasons,
      N_e, N_episodes, N_notv, N_novideo, N_tv, N_limit, N_sort, N_credits,
      N_cast, N_show, N_id, N_atom, N_zz }

\* a token: a free word, or the directive '{name}' (bare) or '{name:value}'
Word(w) == [kind |-> "word", name |-> w, val |-> Val(<<>>, FALSE, FALSE, FALSE, FALSE)]
Dir(n, v) == [kind |-> "dir", name |-> n, val |-> v]
Bare(n) == [kind |-> "bare", name |-> n, val |-> Val(<<>>, FALSE, TRUE, TRUE, FALSE)]

Words == {<<"a">>, <<"a", "%">>, N_movie}

Tokens ==
    {Word(w) : w \in Words}
    \cup {Bare(n) : n \in DirNames}
    \cup {Dir(n, v) : n \in DirNames, v \in Values}

\* the tokens put before the token under test: none of them fails
Contexts ==
    { <<>>, <<Word(<<"a">>)>>, <<Bare(N_movie)>>, <<Bare(N_debug)>>,
      <<Dir(N_s, Val(V_1to2, FALSE, TRUE, FALSE, FALSE))>> }

RenderToken(t) ==
    CASE t.kind = "word" -> t.name
      [] t.kind = "bare" -> <<LB>> \o t.name \o <<RB>>
      [] t.kind = "dir" -> <<LB>> \o t.name \o <<":">> \o t.val.text \o <<RB>>

RECURSIVE Render(_)
Render(d) ==
    IF d = <<>> THEN <<>>
    ELSE IF Len(d) = 1 THEN RenderToken(d[1])
    ELSE RenderToken(d[1]) \o <<SP>> \o Render(Tail(d))

ParseIdle ==
    /\ nimpl = "none"
    /\ ndesc = <<>>
    /\ nquery = <<>>
    /\ nfuzzy = FALSE
    /\ nret = [s |-> Nil, err |-> NoErr, exit |-> FALSE]
    /\ npc = "idle"

ParseInit ==
    /\ nimpl \in {"New", "NewSearcher"}
    /\ ndesc \in {c \o <<t>> : c \in Contexts, t \in Tokens}
    /\ nquery = Render(ndesc)
    /\ nfuzzy \in BOOLEAN
    /\ nret = [s |-> Nil, err |-> NoErr, exit |-> FALSE]
    /\ npc = "call"

\* the call search.New(db, query) and its return
CallNew ==
    /\ npc = "call"
    /\ nimpl = "New"
    /\ nret' = [s |-> New(nfuzzy, nquery).s, err |-> New(nfuzzy, nquery).err,
                exit |-> FALSE]
    /\ npc' = "done"
    /\ UNCHANGED <<nimpl, ndesc, nquery, nfuzzy, tokVars, rangeVars, resVars, compVars, listVars>>

\* the call imdb.NewSearcher(db, query): its return, or the process's exit
CallNewSearcher ==
    /\ npc = "call"
    /\ nimpl = "NewSearcher"
    /\ nret' = NewSearcher(nfuzzy, nquery)
    /\ npc' = "done"
    /\ UNCHANGED <<nimpl, ndesc, nquery, nfuzzy, tokVars, rangeVars, resVars, compVars, listVars>>

ParseNext == CallNew \/ CallNewSearcher

----------------------------------------------------------------------------
(* Results, choose and Pick (search.go:268-350).  A call of Results or of
   Pick on the top-level Searcher runs as a stack of frames; a step is a
   call, a return, the query sent to the database, or the chooser's answer. *)

\* the most rows a query returns, and the longest list handed to Pick
MaxRows == 3

\* similarities are kept in hundredths; -100 is the -1 of a search that has
\* no similarity score (similarColumn, search.go:845-851)
NoSimilarity == -100
Similarities == {0, 50, 60, 90, 100}

\* the thresholds given to GoodThreshold: the default, and 1.0
Thresholds == {defaultGoodThreshold, 100}

\* GoodThreshold (search.go:364-367) and Chooser (search.go:504-507); a
\* chooser is "nil" or "set"
GoodThreshold(s, diff) == [s EXCEPT !.goodThreshold = diff]
Chooser(s, chooser) == [s EXCEPT !.chooser = chooser]

\* a Result, as far as Pick and choose read it
Result(id, sim) == [Id |-> id, Similarity |-> sim]

\* the rows with the given similarities; the k-th row is the atom k
RECURSIVE RowsFrom(_, _)
RowsFrom(sims, k) ==
    IF k > Len(sims) THEN <<>>
    ELSE <<Result(k, sims[k])>> \o RowsFrom(sims, k + 1)

Rows(sims) == RowsFrom(sims, 1)

SortedDesc(sims) == \A k \in 1..(Len(sims) - 1) : sims[k] >= sims[k + 1]

Min(a, b) == IF a < b THEN a ELSE b

\* the result lists the query of s can give: the similarity column is
\* similarity(name, $1), and the first sort key, when the search is fuzzy
\* and has a name, and -1 otherwise; LIMIT bounds the rows
DBRows(s) ==
    LET n == Min(MaxRows, s.limit)
    IN IF s.fuzzy /\ Len(s.name) > 0
         THEN {Rows(l) : l \in {x \in SeqsUpTo(Similarities, n) : SortedDesc(x)}}
         ELSE {Rows(l) : l \in SeqsUpTo({NoSimilarity}, n)}

\* the error csql.Safe returns when the query fails
DBErr == Err("sql", <<>>, <<>>)

\* what the closure of Results leaves: the rows and a nil error, or the rows
\* scanned so far and the error
DBOutcomes(s) ==
    {[rs |-> l, err |-> NoErr] : l \in DBRows(s)}
    \cup {[rs |-> l, err |-> DBErr] : l \in {<<>>, Rows(<<NoSimilarity>>)}}

\* the lists a caller hands to Pick
PickLists == {Rows(l) : l \in SeqsUpTo(Similarities \cup {NoSimilarity}, MaxRows)}

\* what a chooser can answer on rs: nothing, one of the results, an error
ChooserErr == Err("chooser", <<>>, <<>>)
ChooserOutcomes(rs) ==
    {[r |-> Nil, err |-> NoErr], [r |-> Nil, err |-> ChooserErr],
     [r |-> Ptr(rs[1]), err |-> ChooserErr]}
    \cup {[r |-> Ptr(rs[k]), err |-> NoErr] : k \in 1..Len(rs)}

\* the sub-search fields taken from the last to the first
subOrderReversed == <<"subActor", "subEpisode", "subTvshow", "subMovie">>

\* the sub-search fields of a Searcher, in the order Results resolves them
subOrder == <<"subMovie", "subTvshow", "subEpisode", "subActor">>

\* the Searcher reached from s through the sub-search fields of path
RECURSIVE At(_, _)
At(s, path) ==
    IF path = <<>> THEN s ELSE At(s[path[1]][1].s, Tail(path))

\* the subsearch (Searcher and id) at a non-empty path
SubAt(s, path) ==
    At(s, SubSeq(path, 1, Len(path) - 1))[path[Len(path)]][1]

\* s with the subsearch at a non-empty path replaced
RECURSIVE PutSub(_, _, _)
PutSub(s, path, sub) ==
    IF Len(path) = 1 THEN [s EXCEPT ![path[1]] = Ptr(sub)]
    ELSE [s EXCEPT ![path[1]] =
            Ptr([s |-> PutSub(s[path[1]][1].s, Tail(path), sub),
                 id |-> s[path[1]][1].id])]

\* the queries the resolved Searchers are built from
\* a
Q_plain ==
    <<"a">>
\* {movie:a}
Q_movie ==
    <<"{", "m", "o", "v", "i", "e", ":", "a", "}">>
\* {tv:a} {actor:b} c
Q_tvactor ==
    <<"{", "t", "v", ":", "a", "}", " ", "{", "a", "c", "t", "o", "r", ":",
    "b", "}", " ", "c">>
\* {tv:{movie:a} b} c
Q_nested ==
    <<"{", "t", "v", ":", "{", "m", "o", "v", "i", "e", ":", "a", "}", " ",
    "b", "}", " ", "c">>
\* {tv:{debug} a}
Q_subdebug ==
    <<"{", "t", "v", ":", "{", "d", "e", "b", "u", "g", "}", " ", "a", "}">>
\* {debug} {episode:a} b
Q_debug ==
    <<"{", "d", "e", "b", "u", "g", "}", " ", "{", "e", "p", "i", "s", "o",
    "d", "e", ":", "a", "}", " ", "b">>
\* {movie:a} {tvshow:b} {episode:c} {actor:d} e
Q_all ==
    <<"{", "m", "o", "v", "i", "e", ":", "a", "}", " ", "{", "t", "v", "s",
    "h", "o", "w", ":", "b", "}", " ", "{", "e", "p", "i", "s", "o", "d", "e",
    ":", "c", "}", " ", "{", "a", "c", "t", "o", "r", ":", "d", "}", " ",
    "e">>
\* {tv:{s:1}} {limit:2}
Q_noname ==
    <<"{", "t", "v", ":", "{", "s", ":", "1", "}", "}", " ", "{", "l", "i",
    "m", "i", "t", ":", "2", "}">>

\* "{show:supernatural}{s:1}"
Q_show ==
    <<"{", "s", "h", "o", "w", ":", "s", "u", "p", "e", "r", "n", "a", "t",
    "u", "r", "a", "l", "}", "{", "s", ":", "1", "}">>

\* "{movie:{actor} a}"
Q_subentity ==
    <<"{", "m", "o", "v", "i", "e", ":", "{", "a", "c", "t", "o", "r", "}",
    " ", "a", "}">>

ResQueries ==
    {Q_plain, Q_movie, Q_tvactor, Q_nested,
     Q_subdebug, Q_debug, Q_all, Q_noname, Q_show, Q_subentity}

\* Pick up to the call of the chooser (search.go:313-324): the result it
\* returns (ret), or that the chooser is to be called
PickDirectNoAuto(s, rs) ==
    LET first == [ret |-> TRUE, r |-> Ptr(rs[1])]
    IN IF Len(rs) = 0 THEN [ret |-> TRUE, r |-> Nil]
       ELSE IF s.chooser = "nil" THEN first
       ELSE [ret |-> FALSE, r |-> Nil]

PickDirect(s, rs) ==
    LET first == [ret |-> TRUE, r |-> Ptr(rs[1])]
    IN IF Len(rs) = 0 THEN [ret |-> TRUE, r |-> Nil]
       ELSE IF Len(rs) = 1 THEN first
       ELSE IF /\ rs[1].Similarity > NoSimilarity
               /\ rs[2].Similarity > NoSimilarity
               /\ rs[1].Similarity - rs[2].Similarity >= s.goodThreshold
         THEN first
       ELSE IF s.chooser = "nil" THEN first
       ELSE [ret |-> FALSE, r |-> Nil]

\* Pick after the chooser has answered (search.go:326-332)
PickChosenDropped(out) == [r |-> Nil, err |-> out.err]

PickChosen(out) ==
    IF out.err # NoErr THEN [r |-> Nil, err |-> out.err]
    ELSE IF out.r = Nil THEN [r |-> Nil, err |-> NoErr]
    ELSE [r |-> out.r, err |-> NoErr]

\* what a call returns: Results (rs, err), Pick (r, err), choose err; calls
\* are the calls of the chooser a Pick has made
Ret(rs, r, err, calls) == [rs |-> rs, r |-> r, err |-> err, calls |-> calls]
NoRet == Ret(<<>>, Nil, NoErr, <<>>)
NoOut == [r |-> Nil, err |-> NoErr]

\* a frame: the function, the Searcher it runs on (path from the top-level
\* one), where it stands, and its locals; rv is what its callee returned
Frame(fn, path, pc, rs) ==
    [fn |-> fn, path |-> path, pc |-> pc, i |-> 1, rs |-> rs, r |-> Nil,
     err |-> NoErr, calls |-> <<>>, out |-> NoOut, rv |-> NoRet]

Cur == stack[Len(stack)]
Running(fn, pc) == spc = "run" /\ Cur.fn = fn /\ Cur.pc = pc
SetCur(f) == [stack EXCEPT ![Len(stack)] = f]

\* the running frame calls: it will go on at cont
Call(cont, callee) == stack' = Append(SetCur(cont), callee)

\* the running frame returns v to its caller, or to the caller of the API
Return(v) ==
    IF Len(stack) = 1
      THEN /\ stack' = <<>>
           /\ sret' = v
           /\ spc' = "done"
      ELSE /\ stack' = [SubSeq(stack, 1, Len(stack) - 1)
                           EXCEPT ![Len(stack) - 1].rv = v]
           /\ UNCHANGED <<sret, spc>>

ResIdle ==
    /\ scfg = [query |-> <<>>, fuzzy |-> FALSE, threshold |-> 0, chooser |-> "nil"]
    /\ top = EmptySearcher(FALSE)
    /\ stack = <<>>
    /\ sret = NoRet
    /\ spc = "idle"
    /\ queried = <<>>

\* search.New(db, query), then GoodThreshold and Chooser on what it returns
ResInit ==
    /\ scfg \in [query : ResQueries, fuzzy : BOOLEAN, threshold : Thresholds,
                 chooser : {"nil", "set"}]
    /\ top = Chooser(GoodThreshold(New(scfg.fuzzy, scfg.query).s[1],
                                   scfg.threshold), scfg.chooser)
    /\ stack = <<>>
    /\ sret = NoRet
    /\ spc = "call"
    /\ queried = <<>>

\* the caller calls Results on the top-level Searcher
CallResults ==
    /\ spc = "call"
    /\ stack' = <<Frame("Results", <<>>, "sub", <<>>)>>
    /\ spc' = "run"
    /\ UNCHANGED <<scfg, top, sret, queried, tokVars, rangeVars, parseVars, compVars, listVars>>

\* the caller calls Pick on the top-level Searcher with a result list
CallPick ==
    /\ spc = "call"
    /\ \E rs \in PickLists : stack' = <<Frame("Pick", <<>>, "start", rs)>>
    /\ spc' = "run"
    /\ UNCHANGED <<scfg, top, sret, queried, tokVars, rangeVars, parseVars, compVars, listVars>>

\* Results goes to its next sub-search field, and to the query after the last
Advance(f) ==
    IF f.i < Len(subOrder) THEN [f EXCEPT !.i = @ + 1, !.pc = "sub"]
    ELSE [f EXCEPT !.pc = "query"]

\* Results, one of the four tests `if s.subX != nil` and the call of choose
\* (search.go:270-289)
ResultsSub ==
    /\ Running("Results", "sub")
    /\ LET f == Cur
           field == subOrder[f.i]
       IN IF At(top, f.path)[field] # Nil
            THEN Call([f EXCEPT !.pc = "chose"],
                      Frame("choose", Append(f.path, field), "start", <<>>))
            ELSE stack' = SetCur(Advance(f))
    /\ UNCHANGED <<scfg, top, sret, spc, queried, tokVars, rangeVars, parseVars, compVars, listVars>>

\* Results after choose has returned, going on whatever choose returned
ResultsChoseIgnoringError ==
    /\ Running("Results", "chose")
    /\ stack' = SetCur(Advance(Cur))
    /\ UNCHANGED <<sret, spc>>
    /\ UNCHANGED <<scfg, top, queried, tokVars, rangeVars, parseVars, compVars, listVars>>

\* Results after choose has returned: `if err != nil { return nil, err }`
ResultsChose ==
    /\ Running("Results", "chose")
    /\ IF Cur.rv.err # NoErr
         THEN Return(Ret(<<>>, Nil, Cur.rv.err, <<>>))
         ELSE stack' = SetCur(Advance(Cur)) /\ UNCHANGED <<sret, spc>>
    /\ UNCHANGED <<scfg, top, queried, tokVars, rangeVars, parseVars, compVars, listVars>>

\* Results sends its query and returns the rows and the error
\* (search.go:290-309)
ResultsQuery ==
    /\ Running("Results", "query")
    /\ \E o \in DBOutcomes(At(top, Cur.path)) : Return(Ret(o.rs, Nil, o.err, <<>>))
    /\ queried' = Append(queried, Cur.path)
    /\ UNCHANGED <<scfg, top, tokVars, rangeVars, parseVars, compVars, listVars>>

\* choose calling sub.Results() with the sub-search's settings left as New
\* made them
ChooseStartNoCopy ==
    /\ Running("choose", "start")
    /\ Call([Cur EXCEPT !.pc = "results"], Frame("Results", Cur.path, "sub", <<>>))
    /\ UNCHANGED <<scfg, top, sret, spc, queried, tokVars, rangeVars, parseVars, compVars, listVars>>

\* choose copies the parent's settings onto the sub-search and calls
\* sub.Results() (search.go:336-340)
ChooseStart ==
    /\ Running("choose", "start")
    /\ LET path == Cur.path
           parent == At(top, SubSeq(path, 1, Len(path) - 1))
           sub == SubAt(top, path)
       IN top' = PutSub(top, path,
                        [sub EXCEPT !.s.goodThreshold = parent.goodThreshold,
                                    !.s.chooser = parent.chooser,
                                    !.s.debug = parent.debug])
    /\ Call([Cur EXCEPT !.pc = "results"], Frame("Results", Cur.path, "sub", <<>>))
    /\ UNCHANGED <<scfg, sret, spc, queried, tokVars, rangeVars, parseVars, compVars, listVars>>

\* choose after sub.Results() has returned (search.go:341-344)
ChooseResults ==
    /\ Running("choose", "results")
    /\ LET f == Cur
           what == At(top, f.path).what
       IN IF f.rv.err # NoErr
            THEN Return(Ret(<<>>, Nil,
                            Err("Error with %s sub-search: %s", <<what>>, <<f.rv.err>>),
                            <<>>))
            ELSE /\ Call([f EXCEPT !.rs = f.rv.rs, !.pc = "picked"],
                         Frame("Pick", f.path, "start", f.rv.rs))
                 /\ UNCHANGED <<sret, spc>>
    /\ UNCHANGED <<scfg, top, queried, tokVars, rangeVars, parseVars, compVars, listVars>>

\* choose after sub.Pick(rs) has returned (search.go:345-349): the statement
\* sub.id = r.Id dereferences r, and a nil r is a run-time panic that nothing
\* between here and the caller of Results recovers
ChoosePicked ==
    /\ Running("choose", "picked")
    /\ LET f == Cur
           what == At(top, f.path).what
       IN IF f.rv.err # NoErr
            THEN /\ Return(Ret(<<>>, Nil,
                               Err("Error picking %s result: %s", <<what>>,
                                   <<f.rv.err>>), <<>>))
                 /\ UNCHANGED top
          ELSE IF f.rv.r = Nil
            THEN /\ spc' = "panic"
                 /\ UNCHANGED <<top, stack, sret>>
          ELSE /\ top' = PutSub(top, f.path,
                                [SubAt(top, f.path) EXCEPT !.id = f.rv.r[1].Id])
               /\ Return(NoRet)
    /\ UNCHANGED <<scfg, queried, tokVars, rangeVars, parseVars, compVars, listVars>>

\* Pick up to its return or its call of the chooser (search.go:313-325)
PickStart ==
    /\ Running("Pick", "start")
    /\ LET f == Cur
           s == At(top, f.path)
           d == PickDirect(s, f.rs)
       IN IF d.ret
            THEN stack' = SetCur([f EXCEPT !.pc = "ret", !.r = d.r])
            ELSE stack' = SetCur([f EXCEPT !.pc = "chooser",
                                           !.calls = Append(@, [rs |-> f.rs,
                                                                what |-> s.what])])
    /\ UNCHANGED <<scfg, top, sret, spc, queried, tokVars, rangeVars, parseVars, compVars, listVars>>

\* the chooser answers, and Pick takes the answer (search.go:325-332)
ChooserAnswer ==
    /\ Running("Pick", "chooser")
    /\ \E out \in ChooserOutcomes(Cur.rs) :
         stack' = SetCur([Cur EXCEPT !.pc = "ret", !.out = out,
                                     !.r = PickChosen(out).r,
                                     !.err = PickChosen(out).err])
    /\ UNCHANGED <<scfg, top, sret, spc, queried, tokVars, rangeVars, parseVars, compVars, listVars>>

\* Pick returns
PickReturn ==
    /\ Running("Pick", "ret")
    /\ Return(Ret(<<>>, Cur.r, Cur.err, Cur.calls))
    /\ UNCHANGED <<scfg, top, queried, tokVars, rangeVars, parseVars, compVars, listVars>>

ResNext ==
    \/ CallResults
    \/ CallPick
    \/ ResultsSub
    \/ ResultsChose
    \/ ResultsQuery
    \/ ChooseStart
    \/ ChooseResults
    \/ ChoosePicked
    \/ PickStart
    \/ ChooserAnswer
    \/ PickReturn

----------------------------------------------------------------------------
(* The query compiler: sql and its parts (search.go:607-855).  The compiled
   statement is kept as its parts: the similarity column, the credit columns,
   the credit joins, the predicates of WHERE, the keys of ORDER BY and the
   limit.  A predicate, a join and a column are records of what their text
   names. *)

\* sub.empty() (search.go:352-354)
empty(sub) == sub = Nil \/ sub[1].id = 0

\* similarColumn (search.go:845-851): '$1' is the query's first argument
similarColumn(s, col) ==
    IF Len(s.name) > 0 /\ s.fuzzy
      THEN [expr |-> "similarity(%s, $1)", col |-> col]
      ELSE [expr |-> "-1", col |-> ""]

\* one LEFT JOIN credit AS alias ON left = right AND fixed = id
CreditJoin(alias, left, right, fixed, id) ==
    [alias |-> alias, left |-> left, right |-> right, fixed |-> fixed, id |-> id]

\* creditJoin with the media join made for a movie sub-search only
creditJoinMovieOnly(s) ==
    (IF ~empty(s.subActor)
       THEN <<CreditJoin("c_actor", "name.atom_id", "c_actor.media_atom_id",
                         "c_actor.actor_atom_id", s.subActor[1].id)>>
       ELSE <<>>)
    \o (IF ~empty(s.subMovie)
          THEN <<CreditJoin("c_media", "a.atom_id", "c_media.actor_atom_id",
                            "c_media.media_atom_id", s.subMovie[1].id)>>
          ELSE <<>>)

\* creditJoin (search.go:673-699)
creditJoin(s) ==
    LET mediaId == IF ~empty(s.subMovie) THEN s.subMovie[1].id
                   ELSE IF ~empty(s.subTvshow) THEN s.subTvshow[1].id
                   ELSE IF ~empty(s.subEpisode) THEN s.subEpisode[1].id
                   ELSE 0
    IN (IF ~empty(s.subActor)
          THEN <<CreditJoin("c_actor", "name.atom_id", "c_actor.media_atom_id",
                            "c_actor.actor_atom_id", s.subActor[1].id)>>
          ELSE <<>>)
       \o (IF mediaId > 0
             THEN <<CreditJoin("c_media", "a.atom_id", "c_media.actor_atom_id",
                               "c_media.media_atom_id", mediaId)>>
             ELSE <<>>)

\* the five credit columns: name, then the column of credit it is read from
creditColumns ==
    << [as |-> "c_actor_id", of |-> "actor_atom_id", zero |-> "0"],
       [as |-> "c_media_id", of |-> "media_atom_id", zero |-> "0"],
       [as |-> "c_character", of |-> "character", zero |-> "''"],
       [as |-> "c_position", of |-> "position", zero |-> "0"],
       [as |-> "c_attrs", of |-> "attrs", zero |-> "''"] >>

\* a projected column: COALESCE over the aliases' columns and the default;
\* with no alias it is the default alone, with two aliases there is no default
CreditAttr(c, aliases) ==
    [as |-> c.as,
     coalesce |-> IF Len(aliases) = 0 THEN <<>>
                  ELSE IF Len(aliases) = 1
                    THEN <<[alias |-> aliases[1], col |-> c.of]>>
                  ELSE <<[alias |-> aliases[1], col |-> c.of],
                         [alias |-> aliases[2], col |-> c.of]>>,
     default |-> IF Len(aliases) = 2 THEN "" ELSE c.zero]

\* creditAttrs (search.go:701-739)
creditAttrs(s) ==
    LET act == ~empty(s.subActor)
        med == ~empty(s.subMovie) \/ ~empty(s.subTvshow) \/ ~empty(s.subEpisode)
        aliases == CASE ~act /\ ~med -> <<>>
                     [] ~act /\ med -> <<"c_media">>
                     [] act /\ ~med -> <<"c_actor">>
                     [] act /\ med -> <<"c_actor", "c_media">>
    IN << CreditAttr(creditColumns[1], aliases),
          CreditAttr(creditColumns[2], aliases),
          CreditAttr(creditColumns[3], aliases),
          CreditAttr(creditColumns[4], aliases),
          CreditAttr(creditColumns[5], aliases) >>

\* a predicate of WHERE: op on col with the bounds lo and hi or the list in,
\* and the column whose NULL (orNull) or non-NULL (orNotNull) also passes
Cond(op, col, lo, hi, in, orNull, orNotNull) ==
    [op |-> op, col |-> col, lo |-> lo, hi |-> hi, in |-> in,
     orNull |-> orNull, orNotNull |-> orNotNull]

NotNull(col) == Cond("IS NOT NULL", col, 0, 0, <<>>, "", "")

\* irange.cond with the two bounds put in order
condOrdered(ir, col) ==
    Cond(">= AND <=", col, IF ir.min <= ir.max THEN ir.min ELSE ir.max,
         IF ir.min <= ir.max THEN ir.max ELSE ir.min, <<>>, "", "")

\* irange.cond (search.go:853-855): col >= min AND col <= max
cond(ir, col) == Cond(">= AND <=", col, ir.min, ir.max, <<>>, "", "")

\* (e.atom_id IS NULL OR <cond>)
OrNull(col, c) == [c EXCEPT !.orNull = col]

\* whereCredits with the TV show taken before the movie
whereCreditsTvshowFirst(s) ==
    LET media == IF ~empty(s.subTvshow)
                   THEN <<Cond("=", "e.tvshow_atom_id", s.subTvshow[1].id,
                               s.subTvshow[1].id, <<>>, "", "c_media.actor_atom_id")>>
                 ELSE IF ~empty(s.subMovie) THEN <<NotNull("c_media.actor_atom_id")>>
                 ELSE IF ~empty(s.subEpisode)
                   THEN <<NotNull("c_media.actor_atom_id")>>
                 ELSE <<>>
        actor == IF ~empty(s.subActor) THEN <<NotNull("c_actor.media_atom_id")>>
                 ELSE <<>>
        joined == IF actor # <<>> THEN "c_actor"
                  ELSE IF media # <<>> THEN "c_media" ELSE ""
        position == IF joined = "c_actor" THEN "c_actor.position"
                    ELSE "c_media.position"
    IN media \o actor
       \o (IF joined # "" /\ s.billing # Nil
             THEN <<cond(s.billing[1], position)>> ELSE <<>>)

\* whereCredits (search.go:790-813)
whereCredits(s) ==
    LET media == IF ~empty(s.subMovie) THEN <<NotNull("c_media.actor_atom_id")>>
                 ELSE IF ~empty(s.subTvshow)
                   THEN <<Cond("=", "e.tvshow_atom_id", s.subTvshow[1].id,
                               s.subTvshow[1].id, <<>>, "", "c_media.actor_atom_id")>>
                 ELSE IF ~empty(s.subEpisode)
                   THEN <<NotNull("c_media.actor_atom_id")>>
                 ELSE <<>>
        actor == IF ~empty(s.subActor) THEN <<NotNull("c_actor.media_atom_id")>>
                 ELSE <<>>
        joined == IF actor # <<>> THEN "c_actor"
                  ELSE IF media # <<>> THEN "c_media" ELSE ""
        position == IF joined = "c_actor" THEN "c_actor.position"
                    ELSE "c_media.position"
    IN media \o actor
       \o (IF joined # "" /\ s.billing # Nil
             THEN <<cond(s.billing[1], position)>> ELSE <<>>)

\* where (search.go:741-788): the predicates joined by " AND "
where(s) ==
    whereCredits(s)
    \o (IF Len(s.entities) > 0
          THEN <<Cond("IN", "entity", 0, 0, s.entities, "", "")>>
          ELSE <<>>)
    \o (IF s.year # Nil
          THEN <<cond(s.year[1], "COALESCE(m.year, t.year, e.year, 0)")>>
          ELSE <<>>)
    \o (IF s.rating # Nil THEN <<cond(s.rating[1], "rating.rank")>> ELSE <<>>)
    \o (IF s.votes # Nil THEN <<cond(s.votes[1], "rating.votes")>> ELSE <<>>)
    \o (IF s.season # Nil
          THEN <<OrNull("e.atom_id", cond(s.season[1], "e.season"))>> ELSE <<>>)
    \o (IF s.episode # Nil
          THEN <<OrNull("e.atom_id", cond(s.episode[1], "e.episode_num"))>>
          ELSE <<>>)
    \o (IF s.noTvMovie
          THEN <<Cond("= cast(0 as boolean)", "m.tv", 0, 0, <<>>, "m.atom_id", "")>>
          ELSE <<>>)
    \o (IF s.noVideoMovie
          THEN <<Cond("= cast(0 as boolean)", "m.video", 0, 0, <<>>, "m.atom_id", "")>>
          ELSE <<>>)
    \o (IF Len(s.name) > 0
          THEN <<Cond(IF s.fuzzy THEN "% $1"
                      ELSE IF HasWildcard(s.name) THEN "LIKE $1" ELSE "= $1",
                      "name.name", 0, 0, <<>>, "", "")>>
          ELSE <<>>)

\* qualifiedColumns (search.go:862-879)
qualifiedColumns ==
    (N_entity :> "entity") @@ (N_atom_id :> "atom_id") @@ (N_name :> "name")
    @@ (N_year :> "year") @@ (N_attrs :> "attrs")
    @@ (N_similarity :> "similarity")
    @@ (N_season :> "e.season") @@ (N_episode :> "e.episode_num")
    @@ (N_episode_num :> "e.episode_num")
    @@ (N_rank :> "rating.rank") @@ (N_votes :> "rating.votes")
    @@ (N_billing :> "c_media.position") @@ (N_billed :> "c_media.position")

\* orderColumnQualified (search.go:881-883): "" for a column not in the map
orderColumnQualified(column) ==
    IF column \in DOMAIN qualifiedColumns THEN qualifiedColumns[column] ELSE ""

\* "DESC", the order orderby writes for similarity
SimilarityOrder == <<"D", "E", "S", "C">>

\* the loop of orderby with a key for every sort pair, qualified or not
RECURSIVE orderKeysSkippingNone(_)
orderKeysSkippingNone(order) ==
    IF order = <<>> THEN <<>>
    ELSE <<[column |-> orderColumnQualified(order[1].column),
            order |-> order[1].order]>>
         \o orderKeysSkippingNone(Tail(order))

\* the loop of orderby over s.order (search.go:817-824): a key per sort pair
\* whose column is qualified, the others skipped
RECURSIVE orderKeys(_)
orderKeys(order) ==
    IF order = <<>> THEN <<>>
    ELSE LET qualed == orderColumnQualified(order[1].column)
         IN (IF qualed = "" THEN <<>>
             ELSE <<[column |-> qualed, order |-> order[1].order]>>)
            \o orderKeys(Tail(order))

\* orderby (search.go:815-832): the keys of ORDER BY, none when it is omitted
orderby(s) ==
    LET q == orderKeys(s.order)
    IN IF s.fuzzy /\ Len(s.name) > 0
         THEN <<[column |-> "similarity", order |-> SimilarityOrder]>> \o q
         ELSE q

\* the pieces of a WHERE clause: a predicate, or the word AND
Pred(c) == [kind |-> "pred", cond |-> Ptr(c)]
And == [kind |-> "AND", cond |-> Nil]

\* strings.Join(conj, " AND ") (search.go:787)
RECURSIVE joinAnd(_)
joinAnd(conj) ==
    IF conj = <<>> THEN <<>>
    ELSE IF Len(conj) = 1 THEN <<Pred(conj[1])>>
    ELSE <<Pred(conj[1]), And>> \o joinAnd(Tail(conj))

\* the text after WHERE in sql's format (search.go:660-663): the test that
\* the row is an entity, AND, and what where() returns
whereClause(s) ==
    <<Pred(NotNull("COALESCE(m.atom_id, t.atom_id, e.atom_id, a.atom_id)")), And>>
    \o joinAnd(where(s))

\* sql (search.go:607-671): the statement, and whether it went to stderr
sql(s) ==
    [similarity |-> similarColumn(s, "name.name"),
     creditAttrs |-> creditAttrs(s),
     creditJoin |-> creditJoin(s),
     where |-> where(s),
     whereClause |-> whereClause(s),
     orderby |-> orderby(s),
     limit |-> s.limit,
     printed |-> s.debug]

\* the name passed as an argument whether it is empty or not
queryArgsAlways(s) == <<s.name>>

\* the arguments Results passes with the statement (search.go:292-296)
queryArgs(s) == IF Len(s.name) = 0 THEN <<>> ELSE <<s.name>>

\* where of the older package (imdb/search.go:404-433): the ranges of season
\* and episode are written as they are
legacyWhere(s) ==
    (IF s.tvshow # Nil /\ s.tvshow[1].id > 0
       THEN <<Cond("=", "e.tvshow_atom_id", s.tvshow[1].id, s.tvshow[1].id,
                   <<>>, "", "")>>
       ELSE <<>>)
    \o (IF Len(s.entities) > 0
          THEN <<Cond("IN", "entity", 0, 0, s.entities, "", "")>>
          ELSE <<>>)
    \o (IF s.year # Nil
          THEN <<cond(s.year[1], "COALESCE(m.year, t.year, e.year)")>>
          ELSE <<>>)
    \o (IF s.season # Nil THEN <<cond(s.season[1], "e.season")>> ELSE <<>>)
    \o (IF s.episode # Nil THEN <<cond(s.episode[1], "e.episode_num")>> ELSE <<>>)
    \o (IF Len(s.name) > 0
          THEN <<Cond(IF s.fuzzy THEN "% $1"
                      ELSE IF HasWildcard(s.name) THEN "LIKE $1" ELSE "= $1",
                      "name.name", 0, 0, <<>>, "", "")>>
          ELSE <<>>)

\* sql of the older package (imdb/search.go:351-402): its similarity column,
\* the predicates after 'WHERE 1 = 1 AND' and the limit
legacySql(s) ==
    [similarity |-> similarColumn(s, "name.name"),
     where |-> legacyWhere(s),
     whereClause |-> <<Pred(Cond("=", "1", 1, 1, <<>>, "", "")), And>>
                     \o joinAnd(legacyWhere(s)),
     limit |-> s.limit]

\* the most atom ids a resolved sub-search of one role is given
MaxAtom == 1

\* a '{name:text}' token of a compiled query
CompDir(n, text) == [kind |-> "dir", name |-> n, val |-> [text |-> text]]

\* the words of the name query: none, "a", and "a%" with its wildcard
NameChoices == {<<>>, <<Word(<<"a">>)>>, <<Word(<<"a", "%">>)>>}

\* entity and flag directives
FlagChoices ==
    { <<>>, <<Bare(N_movie)>>,
      <<Bare(N_episode), Bare(N_actor), Bare(N_notv), Bare(N_novideo),
        CompDir(N_limit, <<"5">>), Bare(N_debug)>> }

\* range directives '{name:lo-hi}', some with lo above hi
RangeOf(n, lo, hi) == [name |-> n, lo |-> lo, hi |-> hi]
RangeChoices ==
    { <<>>,
      <<RangeOf(N_years, 1990, 2020)>>, <<RangeOf(N_years, 2020, 1990)>>,
      <<RangeOf(N_rank, 90, 10)>>, <<RangeOf(N_votes, 9, 1)>>,
      <<RangeOf(N_seasons, 1, 1), RangeOf(N_episodes, 2, 3)>>,
      <<RangeOf(N_s, 5, 1)>>, <<RangeOf(N_e, 5, 1)>>,
      <<RangeOf(N_billed, 1, 5)>>, <<RangeOf(N_billed, 5, 1)>> }

\* sort directives, by their values: "x" is no column
SortChoices ==
    { <<>>, <<V_year>>, <<V_x>>, <<V_x, V_yeardesc>>, <<V_billing, V_name>>,
      <<V_rank>> }

\* the query of each sub-search role
SubQuery ==
    ("subMovie" :> CompDir(N_movie, <<"m">>))
    @@ ("subTvshow" :> CompDir(N_tvshow, <<"t">>))
    @@ ("subEpisode" :> CompDir(N_episode, <<"e">>))
    @@ ("subActor" :> CompDir(N_actor, <<"c">>))

\* the atom ids of a role are its own: 10, 20, 30, 40 and the n-th above it
AtomOf(j, n) == 10 * j + n - 1

RECURSIVE RangeToks(_)
RangeToks(rs) ==
    IF rs = <<>> THEN <<>>
    ELSE <<CompDir(rs[1].name, Dec(rs[1].lo) \o <<"-">> \o Dec(rs[1].hi))>>
         \o RangeToks(Tail(rs))

RECURSIVE SortToks(_)
SortToks(vs) ==
    IF vs = <<>> THEN <<>> ELSE <<CompDir(N_sort, vs[1])>> \o SortToks(Tail(vs))

RECURSIVE SubToks(_, _)
SubToks(ids, j) ==
    IF j > Len(subOrder) THEN <<>>
    ELSE (IF ids[subOrder[j]] > 0 THEN <<SubQuery[subOrder[j]]>> ELSE <<>>)
         \o SubToks(ids, j + 1)

\* the tokens of the query of an input
CompTokens(c) ==
    c.name \o c.flags \o RangeToks(c.ranges) \o SortToks(c.sorts) \o SubToks(c.ids, 1)

\* choose's `sub.id = r.Id` (search.go:348) for every sub-search of s, with
\* the n-th atom of the role picked
RECURSIVE Resolve(_, _, _)
Resolve(s, ids, j) ==
    IF j > Len(subOrder) THEN s
    ELSE Resolve(IF ids[subOrder[j]] > 0
                   THEN [s EXCEPT ![subOrder[j]] =
                           Ptr([@[1] EXCEPT !.id = AtomOf(j, ids[subOrder[j]])])]
                   ELSE s,
                 ids, j + 1)

\* queryTokens of the query whose space-separated parts are the tokens d:
\* no part holds a top-level space, so each part is split on its own
RECURSIVE TokensOf(_)
TokensOf(d) ==
    IF d = <<>> THEN <<>> ELSE queryTokens(RenderToken(d[1])) \o TokensOf(Tail(d))

\* the Searcher of an input: New on the query, then every sub-search resolved
Build(c) ==
    Resolve(NewLoop(c.fuzzy, TokensOf(CompTokens(c)), 1, EmptySearcher(c.fuzzy),
                    <<>>).s[1],
            c.ids, 1)

\* the query holds only what the older parser knows: no movie, episode or
\* actor sub-search and no rank, votes or billed range
LegacyQuery(c) ==
    /\ c.ids["subMovie"] = 0 /\ c.ids["subEpisode"] = 0 /\ c.ids["subActor"] = 0
    /\ \A k \in 1..Len(c.ranges) : c.ranges[k].name \notin {N_rank, N_votes, N_billed}

\* Results of the older package gives the TV show its id:
\* `s.tvshow.id = tvrs[0].Id` (imdb/search.go:143-156)
LegacyResolve(s, id) ==
    IF s.tvshow = Nil THEN s
    ELSE [s EXCEPT !.tvshow = Ptr([s.tvshow[1] EXCEPT !.id = id])]

\* the Searcher of the older package for an input: NewSearcher on the query,
\* then the id of its TV show
LegacyBuild(c) ==
    LegacyResolve(LegacyLoop(c.fuzzy, TokensOf(CompTokens(c)), 1,
                             LegacyEmptySearcher(c.fuzzy), <<>>).s[1],
                  AtomOf(2, c.ids["subTvshow"]))

CompIdle ==
    /\ cin = [name |-> <<>>, flags |-> <<>>, ranges |-> <<>>, sorts |-> <<>>,
              fuzzy |-> FALSE, ids |-> [f \in DOMAIN SubQuery |-> 0]]
    /\ cs = EmptySearcher(FALSE)
    /\ lcs = LegacyEmptySearcher(FALSE)
    /\ compiled = <<>>
    /\ lcompiled = Nil

CompInit ==
    /\ cin \in [name : NameChoices, flags : FlagChoices, ranges : RangeChoices,
                sorts : SortChoices, fuzzy : BOOLEAN,
                ids : [DOMAIN SubQuery -> 0..MaxAtom]]
    /\ cs = Build(cin)
    /\ lcs = IF LegacyQuery(cin) THEN LegacyBuild(cin)
             ELSE LegacyEmptySearcher(cin.fuzzy)
    /\ compiled = <<>>
    /\ lcompiled = Nil

\* a call of sql that takes the sort pairs out of the Searcher
CompileConsuming ==
    /\ Len(compiled) < 2
    /\ compiled' = Append(compiled, [sql |-> sql(cs), args |-> queryArgs(cs)])
    /\ cs' = [cs EXCEPT !.order = <<>>]
    /\ UNCHANGED <<cin, lcs, lcompiled, tokVars, rangeVars, parseVars, resVars, listVars>>

\* Results compiles the statement and passes it on with its arguments
\* (search.go:292-296); sql assigns to no field of the Searcher
Compile ==
    /\ Len(compiled) < 2
    /\ compiled' = Append(compiled, [sql |-> sql(cs), args |-> queryArgs(cs)])
    /\ UNCHANGED <<cin, cs, lcs, lcompiled, tokVars, rangeVars, parseVars, resVars, listVars>>

\* the older Results compiles the statement of the same query
\* (imdb/search.go:157-164)
CompileLegacy ==
    /\ compiled = <<>>
    /\ lcompiled = Nil
    /\ LegacyQuery(cin)
    /\ lcompiled' = Ptr([s |-> lcs, sql |-> legacySql(lcs), args |-> queryArgs(lcs)])
    /\ UNCHANGED <<cin, cs, lcs, compiled, tokVars, rangeVars, parseVars, resVars, listVars>>

CompNext == Compile \/ CompileLegacy

----------------------------------------------------------------------------
(* listAttrRows and listLines (list.go:60-132).  A line is a sequence of
   bytes; SUSP stands for the text '{{SUSPENDED}}' within a line. *)

\* the most lines a list has
MaxLines == 4

TAB == "\t"
SUSP == "{{SUSPENDED}}"

\* dataStart and dataEnd of listLines (list.go:112)
dataStart == <<"=", "=", "=", "=", "=">>
dataEnd == <<"-", "-", "-", "-", "-", "-", "-", "-", "-", "-">>

\* the lines of a list: the two marks, the entities "m" and "n" the
\* atomizer knows and "u" it does not, an entity with an attribute after a
\* tab, attribute rows that begin with a tab or a space, a suspended
\* attribute row, and the empty line
ListLineChoices ==
    { dataStart, dataEnd, <<"m">>, <<"n">>, <<"u">>,
      <<"m", TAB, "b">>, <<TAB, "a">>, <<SP, "a">>, <<TAB, SUSP>>, <<>> }

\* atoms.AtomOnlyIfExist(entity): (id, ok)
AtomOnlyIfExist(entity) ==
    CASE entity = <<"m">> -> [id |-> 1, ok |-> TRUE]
      [] entity = <<"n">> -> [id |-> 2, ok |-> TRUE]
      [] OTHER -> [id |-> 0, ok |-> FALSE]

\* bytes.HasPrefix
HasPrefix(line, prefix) ==
    Len(line) >= Len(prefix) /\ SubSeq(line, 1, Len(prefix)) = prefix

\* bytes.TrimSpace: spaces and tabs are white space
RECURSIVE bytesTrimLeft(_)
bytesTrimLeft(b) ==
    IF b # <<>> /\ Head(b) \in {SP, TAB} THEN bytesTrimLeft(Tail(b)) ELSE b

RECURSIVE bytesTrimRight(_)
bytesTrimRight(b) ==
    IF b # <<>> /\ b[Len(b)] \in {SP, TAB}
      THEN bytesTrimRight(SubSeq(b, 1, Len(b) - 1))
      ELSE b

bytesTrimSpace(b) == bytesTrimRight(bytesTrimLeft(b))

\* the first byte of the line tells an attribute row, tested on the line as
\* it was read
attrRowAsRead(raw, cur) ==
    LET line == bytesTrimSpace(raw)
        sep == Index(raw, TAB)
        isAttr == raw[1] = SP \/ raw[1] = TAB
        entity == IF isAttr THEN <<>>
                  ELSE IF sep > 0 THEN bytesTrimSpace(SubSeq(raw, 1, sep - 1))
                  ELSE line
        row == IF isAttr THEN line
               ELSE IF sep > 0 /\ sep < Len(raw)
                 THEN bytesTrimSpace(SubSeq(raw, sep + 1, Len(raw)))
               ELSE <<>>
        found == AtomOnlyIfExist(entity)
        cur2 == IF isAttr THEN cur ELSE IF found.ok THEN found.id ELSE 0
    IN IF Len(line) = 0
         THEN [current |-> cur, looked |-> <<>>, calls |-> <<>>]
         ELSE [current |-> cur2,
               looked |-> IF isAttr THEN <<>> ELSE <<entity>>,
               calls |-> IF cur2 # 0 /\ Len(row) > 0
                           THEN <<[id |-> cur2, line |-> line, row |-> row]>>
                           ELSE <<>>]

\* the function listAttrRows passes to listLines (list.go:67-103), on the
\* line raw with the atom cur: the new atom, the entity looked up if any,
\* and the call of do if any
attrRow(raw, cur) ==
    LET line == bytesTrimSpace(raw)
        sep == Index(line, TAB)
        isAttr == line[1] = SP \/ line[1] = TAB
        entity == IF isAttr THEN <<>>
                  ELSE IF sep > 0 THEN bytesTrimSpace(SubSeq(line, 1, sep - 1))
                  ELSE line
        row == IF isAttr THEN line
               ELSE IF sep > 0 /\ sep < Len(line)
                 THEN bytesTrimSpace(SubSeq(line, sep + 1, Len(line)))
               ELSE <<>>
        found == AtomOnlyIfExist(entity)
        cur2 == IF isAttr THEN cur ELSE IF found.ok THEN found.id ELSE 0
    IN IF Len(line) = 0
         THEN [current |-> cur, looked |-> <<>>, calls |-> <<>>]
         ELSE [current |-> cur2,
               looked |-> IF isAttr THEN <<>> ELSE <<entity>>,
               calls |-> IF cur2 # 0 /\ Len(row) > 0
                           THEN <<[id |-> cur2, line |-> line, row |-> row]>>
                           ELSE <<>>]

ListIdle ==
    /\ llines = <<>>
    /\ lpos = 0
    /\ dataSection = FALSE
    /\ current = 0
    /\ looked = <<>>
    /\ lcalls = <<>>
    /\ lpc = "idle"

ListInit ==
    /\ llines \in SeqsUpTo(ListLineChoices, MaxLines)
    /\ lpos = 1
    /\ dataSection = FALSE
    /\ current = 0
    /\ looked = <<>>
    /\ lcalls = <<>>
    /\ lpc = "scan"

ListScanning == lpc = "scan" /\ lpos <= Len(llines)

ListSkip ==
    /\ lpos' = lpos + 1
    /\ UNCHANGED <<llines, current, looked, lcalls, lpc,
                   tokVars, rangeVars, parseVars, resVars, compVars>>

\* a line before the data section (list.go:117-122)
ListHeader ==
    /\ ListScanning
    /\ ~dataSection
    /\ dataSection' = HasPrefix(llines[lpos], dataStart)
    /\ ListSkip

\* the line that ends the data section (list.go:123-125), or no line left
ListEnd ==
    /\ lpc = "scan"
    /\ \/ lpos > Len(llines)
       \/ lpos <= Len(llines) /\ dataSection /\ HasPrefix(llines[lpos], dataEnd)
    /\ lpc' = "done"
    /\ UNCHANGED <<llines, lpos, dataSection, current, looked, lcalls,
                   tokVars, rangeVars, parseVars, resVars, compVars>>

\* a suspended line of the data section (list.go:126-128)
ListSuspended ==
    /\ ListScanning
    /\ dataSection
    /\ ~HasPrefix(llines[lpos], dataEnd)
    /\ Contains(llines[lpos], SUSP)
    /\ UNCHANGED dataSection
    /\ ListSkip

\* a line of the data section given to listAttrRows' function (list.go:129)
ListRow ==
    /\ ListScanning
    /\ dataSection
    /\ ~HasPrefix(llines[lpos], dataEnd)
    /\ ~Contains(llines[lpos], SUSP)
    /\ LET r == attrRow(llines[lpos], current)
       IN /\ current' = r.current
          /\ looked' = looked \o r.looked
          /\ lcalls' = lcalls \o r.calls
    /\ lpos' = lpos + 1
    /\ UNCHANGED <<llines, dataSection, lpc,
                   tokVars, rangeVars, parseVars, resVars, compVars>>

ListNext == ListHeader \/ ListEnd \/ ListSuspended \/ ListRow

----------------------------------------------------------------------------
(* Specifications *)

InitTok == TokInit /\ RangeIdle /\ ParseIdle /\ ResIdle /\ CompIdle /\ ListIdle
SpecTok == InitTok /\ [][TokNext]_vars

InitRange == RangeInit /\ TokIdle /\ ParseIdle /\ ResIdle /\ CompIdle /\ ListIdle
SpecRange == InitRange /\ [][RangeNext]_vars

InitParse == ParseInit /\ TokIdle /\ RangeIdle /\ ResIdle /\ CompIdle /\ ListIdle
SpecParse == InitParse /\ [][ParseNext]_vars

InitResults == ResInit /\ TokIdle /\ RangeIdle /\ ParseIdle /\ CompIdle /\ ListIdle
SpecResults == InitResults /\ [][ResNext]_vars

InitCompile == CompInit /\ TokIdle /\ RangeIdle /\ ParseIdle /\ ResIdle /\ ListIdle
SpecCompile == InitCompile /\ [][CompNext]_vars

InitList == ListInit /\ TokIdle /\ RangeIdle /\ ParseIdle /\ ResIdle /\ CompIdle
SpecList == InitList /\ [][ListNext]_vars

----------------------------------------------------------------------------
(* What the tokenizer's claims speak of, defined on the query alone *)

\* the nesting depth after the first n runes of q: '{' read minus '}' read
RECURSIVE Depth(_, _)
Depth(q, n) ==
    IF n = 0 THEN 0
    ELSE Depth(q, n - 1) + (IF q[n] = LB THEN 1 ELSE IF q[n] = RB THEN -1 ELSE 0)

\* the close brace matching the open brace at j, 0 when it is never closed
MatchClose(q, j) ==
    LET closes == {k \in (j + 1)..Len(q) :
                       q[k] = RB /\ Depth(q, k) = Depth(q, j - 1)}
    IN IF closes = {} THEN 0
       ELSE CHOOSE k \in closes : \A m \in closes : k <= m

\* the balanced spans of q, as <<open, close>> pairs
BalancedSpans(q) ==
    {<<j, MatchClose(q, j)>> : j \in {j \in 1..Len(q) : q[j] = LB /\ MatchClose(q, j) > 0}}

\* the last n runes of a sequence
Tail_(sq, n) == SubSeq(sq, Len(sq) - n + 1, Len(sq))

RECURSIVE Flatten(_)
Flatten(ts) == IF ts = <<>> THEN <<>> ELSE Head(ts) \o Flatten(Tail(ts))

\* q without the spaces read at depth zero
RECURSIVE DropTopSpaces(_, _)
DropTopSpaces(q, n) ==
    IF n = 0 THEN <<>>
    ELSE IF q[n] = SP /\ Depth(q, n - 1) = 0
           THEN DropTopSpaces(q, n - 1)
           ELSE Append(DropTopSpaces(q, n - 1), q[n])

\* the space just read (at pos - 1) is still in the buffer together with the
\* whole of the span from its open brace j on: no token has ended in between
SpanHeldInBuf(j) ==
    /\ Len(buf) >= pos - j
    /\ Tail_(buf, pos - j) = SubSeq(query, j, pos - 1)

\* a brace span that starts a token has just been closed: it is the last token
SpanFlushedWhole ==
    \A sp \in BalancedSpans(query) :
        (/\ sp[2] = pos - 1
         /\ TokLoop(SubSeq(query, 1, sp[1] - 1), 1, TokStart).buf = <<>>)
        => /\ buf = <<>>
           /\ Len(tokens) > 0
           /\ tokens[Len(tokens)] = SubSeq(query, sp[1], sp[2])

ExampleTokens ==
    << <<"a">>, <<"b">>, <<LB, "x", SP, "y", SP, "z", RB>>, <<"c">> >>

\* C1 as stated: for every query, a space inside a balanced brace span (at any
\* depth) never ends a token, a brace span that starts a token is flushed whole
\* at its matching close brace, and "a b {x y z} c" gives a, b, {x y z}, c.
C1_AsStated ==
    /\ \A sp \in BalancedSpans(query) :
          (pos - 1 > sp[1] /\ pos - 1 < sp[2] /\ query[pos - 1] = SP)
          => SpanHeldInBuf(sp[1])
    /\ SpanFlushedWhole
    /\ (tpc = "done" /\ query = ExampleQuery) => tokens = ExampleTokens

\* C1 amended: the same, for the balanced spans that open at a depth that is
\* not negative (no surplus of '}' before the span's open brace).
C1_NoSplitInBalancedSpan ==
    /\ \A sp \in BalancedSpans(query) :
          (/\ pos - 1 > sp[1] /\ pos - 1 < sp[2] /\ query[pos - 1] = SP
           /\ Depth(query, sp[1] - 1) >= 0)
          => SpanHeldInBuf(sp[1])
    /\ SpanFlushedWhole
    /\ (tpc = "done" /\ query = ExampleQuery) => tokens = ExampleTokens

\* the example query has been tokenized into its four tokens
C1_Witness ==
    /\ tpc = "done"
    /\ query = ExampleQuery
    /\ tokens = ExampleTokens

\* C2: an input that ends at a depth other than zero is tokenized all the same:
\* the buffered rest of the query is the final token, unchanged, and the tokens
\* together are the query less its depth-zero spaces.
C2_UnbalancedFlushed ==
    /\ tpc = "loop" => ENABLED TokNext
    /\ (tpc = "done" /\ curlyDepth # 0)
       => /\ Len(buf) > 0
          /\ Len(tokens) > 0
          /\ tokens[Len(tokens)] = buf
          /\ buf = Tail_(query, Len(buf))
          /\ Flatten(tokens) = DropTopSpaces(query, Len(query))

\* "a b {x {y z} w" has been tokenized: its last token is the unclosed rest
C2_Witness ==
    /\ tpc = "done"
    /\ query = ExampleUnclosed
    /\ curlyDepth = 1
    /\ tokens = << <<"a">>, <<"b">>,
                   <<LB, "x", SP, LB, "y", SP, "z", RB, SP, "w">> >>

----------------------------------------------------------------------------
(* intRange: C3 *)

RangeOk(st, en) == [start |-> st, end |-> en, err |-> NoErr]

\* what C3 says intRange returns for the value a case describes
RangeExpected ==
    CASE rcase.form \in {"empty", "-"} -> RangeOk(rin.min, rin.max)
      [] rcase.form = "a"   -> RangeOk(rcase.a, rcase.a)
      [] rcase.form = "a-"  -> RangeOk(rcase.a, rin.max)
      [] rcase.form = "-b"  -> RangeOk(rin.min, rcase.b)
      [] rcase.form = "a-b" -> RangeOk(rcase.a, rcase.b)

\* C3 as stated: for every integer a and b, intRange returns (min,max) for ""
\* and "-", (a,a) for "a" without a '-', (a,max) for "a-", (min,b) for "-b"
\* and (a,b) for "a-b", with white space around the parts trimmed.
C3_AsStated ==
    (rpc = "done" /\ rcase.form # "raw"
        /\ (rcase.form = "a" => ~Contains(Dec(rcase.a), "-")))
    => rout = RangeExpected

\* C3 amended: the same for every integer b and every a >= 0; a negative a
\* puts the first '-' before a's digits, and the split is on that one.
C3_IntRangeForms ==
    (rpc = "done" /\ rcase.form # "raw" /\ rcase.a >= 0)
    => rout = RangeExpected

\* " 5 - -12 " style values have been parsed: a padded "a-b" with a negative b
C3_Witness ==
    /\ rpc = "done"
    /\ rcase.form = "a-b" /\ rcase.a = 5 /\ rcase.b = 0 - 12
    /\ rcase.pad[2] = 1 /\ rcase.pad[3] = 1
    /\ rout = RangeOk(5, 0 - 12)

----------------------------------------------------------------------------
(* The parsers: C4, C5, C6 *)

\* the token under test: the last one of the query
LastToken == ndesc[Len(ndesc)]

\* the names whose handler parses a range, and those whose handler builds a
\* sub-search, in each parser
RangeNames(impl) ==
    IF impl = "New"
      THEN {N_year, N_years, N_rank, N_rate, N_rating, N_votes, N_billing,
            N_billed, N_s, N_season, N_seasons, N_e, N_episodes}
      ELSE {N_year, N_years, N_s, N_season, N_seasons, N_e, N_episode, N_episodes}

SubNames(impl) ==
    IF impl = "New" THEN {N_movie, N_tv, N_tvshow, N_episode, N_actor}
    ELSE {N_tv, N_tvshow}

\* the handler of the token under test fails, in one of the four ways of C4
HandlerFails ==
    /\ LastToken.kind \in {"dir", "bare"}
    /\ \/ LastToken.name \in RangeNames(nimpl) /\ LastToken.val.badRange
       \/ LastToken.name = N_limit /\ LastToken.val.badLimit
       \/ LastToken.name = N_sort /\ LastToken.val.badSort
       \/ LastToken.name \in SubNames(nimpl) /\ LastToken.val.badSub

\* an error and no Searcher came back to the caller
ReturnedErrorOnly ==
    /\ ~nret.exit
    /\ nret.err # NoErr
    /\ nret.s = Nil

\* C4 as stated: whenever a directive handler fails during parsing (a range
\* value with a non-numeric fragment, a non-integer limit, a sort value with
\* zero or more than two fields, a failing nested sub-search query), the parser
\* returns an error and no Searcher, and never ends the process instead.
C4_HandlerErrorReturned ==
    (npc = "done" /\ HandlerFails) => ReturnedErrorOnly

\* the same of search.New alone, which holds
C4_OfNewAlone ==
    (npc = "done" /\ nimpl = "New" /\ HandlerFails) => ReturnedErrorOnly

\* the synonym groups C5 names
SynonymGroups ==
    { {N_s, N_season, N_seasons}, {N_year, N_years}, {N_billed, N_billing},
      {N_e, N_episodes}, {N_tv, N_tvshow} }

\* the query with the name of its last token replaced by n
Renamed(n) ==
    SubSeq(ndesc, 1, Len(ndesc) - 1) \o <<[LastToken EXCEPT !.name = n]>>

\* the synonyms of a group build the same specification in New
SynonymsAgreeInParser(g) ==
    \A n \in g : New(nfuzzy, Render(Renamed(n))).s = nret.s

\* the synonyms of a group are keys of the registry, for the same command
SynonymsAgreeInRegistry(g) ==
    \A n, m \in g :
        /\ n \in DOMAIN allCommands
        /\ m \in DOMAIN allCommands
        /\ allCommands[n] = allCommands[m]

\* C5 as stated: for every value v, the synonyms s/season/seasons, year/years,
\* billed/billing, e/episodes and tv/tvshow written as '{name:v}' build the
\* same specification, in the parser and in the directive registry alike.
C5_SynonymsResolveIdentically ==
    \A g \in SynonymGroups :
        (/\ npc = "done" /\ nimpl = "New"
         /\ LastToken.kind = "dir" /\ LastToken.name \in g
         /\ LastToken.val.text # <<>>)
        => /\ SynonymsAgreeInParser(g)
           /\ SynonymsAgreeInRegistry(g)

\* the parser's half of C5, which holds
C5_OfNewAlone ==
    \A g \in SynonymGroups :
        (/\ npc = "done" /\ nimpl = "New"
         /\ LastToken.kind = "dir" /\ LastToken.name \in g
         /\ LastToken.val.text # <<>>)
        => SynonymsAgreeInParser(g)

\* the sub-search directives C6 names: those New handles, and those only the
\* registry has (through addSub), with the role their sub-search takes
SubSearchDirectives == {N_movie, N_tv, N_tvshow, N_episode, N_actor}
RegistrySubSearches == {N_credits, N_cast, N_show}

\* C6 as stated: a sub-search directive written with an empty value, such as
\* "{movie:}" or "{tv:}", makes specification construction fail with an error
\* that names the directive; it is never accepted as some other directive.
C6_EmptySubSearchRejected ==
    /\ (/\ npc = "done" /\ nimpl = "New"
        /\ LastToken.kind = "dir" /\ LastToken.name \in SubSearchDirectives
        /\ LastToken.val.text = <<>>)
       => /\ ReturnedErrorOnly
          /\ nret.err.text = LastToken.name
    /\ (/\ npc = "done" /\ nimpl = "New"
        /\ LastToken.kind = "dir" /\ LastToken.name \in RegistrySubSearches
        /\ LastToken.val.text = <<>>)
       => LET r == addSub(nfuzzy, EmptySearcher(nfuzzy), LastToken.name,
                          LastToken.val.text, N_tvshow)
          IN r.err # NoErr /\ r.err.text = LastToken.name

\* the cases of C6 that hold: "{tv:}" in New, credits/cast/show in the registry
C6_OfTvAndRegistry ==
    /\ (/\ npc = "done" /\ nimpl = "New"
        /\ LastToken.kind = "dir" /\ LastToken.name = N_tv
        /\ LastToken.val.text = <<>>)
       => /\ ReturnedErrorOnly
          /\ nret.err.text = LastToken.name
    /\ (/\ npc = "done" /\ nimpl = "New"
        /\ LastToken.kind = "dir" /\ LastToken.name \in RegistrySubSearches
        /\ LastToken.val.text = <<>>)
       => LET r == addSub(nfuzzy, EmptySearcher(nfuzzy), LastToken.name,
                          LastToken.val.text, N_tvshow)
          IN r.err # NoErr /\ r.err.text = LastToken.name

----------------------------------------------------------------------------
(* What the claims on Pick and on the resolution of sub-searches speak of *)

\* the Searcher a frame runs on
SearcherOf(f) == At(top, f.path)

\* the noun each sub-search field is searched under (search.go:441-485)
RoleNoun ==
    ("subMovie" :> "movie") @@ ("subTvshow" :> "TV show")
    @@ ("subEpisode" :> "episode") @@ ("subActor" :> "actor")

\* one result, or two and more whose first two have a real similarity and a
\* gap of the threshold or more
AutoSelects(rs, threshold) ==
    \/ Len(rs) = 1
    \/ /\ Len(rs) >= 2
       /\ rs[1].Similarity >= 0
       /\ rs[2].Similarity >= 0
       /\ rs[1].Similarity - rs[2].Similarity >= threshold

\* two results and more, and a gap below the threshold or a -1 similarity on
\* one of the first two
NeedsChoice(rs, threshold) ==
    /\ Len(rs) >= 2
    /\ \/ rs[1].Similarity = NoSimilarity
       \/ rs[2].Similarity = NoSimilarity
       \/ rs[1].Similarity - rs[2].Similarity < threshold

\* C7: in every call of Pick (by the caller or by choose) on a list that has
\* exactly one result, or at least two whose first two similarities are both
\* >= 0 and differ by the threshold or more, the chooser is never called and
\* Pick returns the first result with a nil error.
C7_PickAutoSelects ==
    \A k \in 1..Len(stack) :
        LET f == stack[k]
        IN (f.fn = "Pick" /\ AutoSelects(f.rs, SearcherOf(f).goodThreshold)) =>
              /\ f.calls = <<>>
              /\ f.pc # "chooser"
              /\ f.pc = "ret" => (f.r = Ptr(f.rs[1]) /\ f.err = NoErr)

\* C7's case: similarities [0.9, 0.5, ...], threshold 0.25 and a chooser set;
\* Pick is about to return the first result and has not called the chooser
C7_Witness ==
    \E k \in 1..Len(stack) :
        LET f == stack[k]
        IN /\ f.fn = "Pick"
           /\ f.pc = "ret"
           /\ Len(f.rs) >= 2
           /\ f.rs[1].Similarity = 90
           /\ f.rs[2].Similarity = 50
           /\ SearcherOf(f).goodThreshold = 25
           /\ SearcherOf(f).chooser = "set"
           /\ f.calls = <<>>
           /\ f.r = Ptr(f.rs[1])

\* C8: in every call of Pick on two results or more that do not auto-select,
\* with a chooser set the chooser is called exactly once, with the whole list
\* and the noun of the Searcher (the role's noun for a sub-search), and Pick
\* returns the chooser's selection with a nil error (the chooser's error and
\* no selection when the chooser answers with an error); with no chooser
\* Pick returns the first result with a nil error and calls nothing.
C8_PickAsksChooserOrTakesFirst ==
    \A k \in 1..Len(stack) :
        LET f == stack[k]
            s == SearcherOf(f)
        IN (f.fn = "Pick" /\ f.pc # "start" /\ NeedsChoice(f.rs, s.goodThreshold)) =>
              IF s.chooser # "nil"
                THEN /\ f.calls = <<[rs |-> f.rs, what |-> s.what]>>
                     /\ f.path # <<>> => s.what = RoleNoun[f.path[Len(f.path)]]
                     /\ f.pc = "ret" =>
                          IF f.out.err = NoErr
                            THEN f.r = f.out.r /\ f.err = NoErr
                            ELSE f.r = Nil /\ f.err = f.out.err
                ELSE /\ f.calls = <<>>
                     /\ f.pc = "ret"
                     /\ f.r = Ptr(f.rs[1])
                     /\ f.err = NoErr

\* C8's case: similarities [0.6, 0.5], threshold 0.25, the chooser of a TV
\* show sub-search has been called once and took the second result
C8_Witness ==
    \E k \in 1..Len(stack) :
        LET f == stack[k]
        IN /\ f.fn = "Pick"
           /\ f.pc = "ret"
           /\ f.path = <<"subTvshow">>
           /\ Len(f.rs) = 2
           /\ f.rs[1].Similarity = 60
           /\ f.rs[2].Similarity = 50
           /\ SearcherOf(f).goodThreshold = 25
           /\ f.calls = <<[rs |-> f.rs, what |-> "TV show"]>>
           /\ f.r = Ptr(f.rs[2])
           /\ f.err = NoErr

\* C9: a sub-search whose query has given no rows and no error does not make
\* Results crash: choose, holding the empty list after Pick, never panics.
C9_ZeroResultSubSearchNoError ==
    \A k \in 1..Len(stack) :
        LET f == stack[k]
        IN (f.fn = "choose" /\ f.pc = "picked" /\ f.rs = <<>>) => spc # "panic"

\* C10: when the chooser has answered a nil selection and a nil error while a
\* sub-search is resolved, Results does not crash: choose, holding that answer
\* of Pick, never panics.
C10_NilChoiceNoError ==
    \A k \in 1..Len(stack) :
        LET f == stack[k]
        IN (/\ f.fn = "choose"
            /\ f.pc = "picked"
            /\ f.rv.calls # <<>>
            /\ f.rv.r = Nil
            /\ f.rv.err = NoErr) => spc # "panic"

----------------------------------------------------------------------------
(* What the claims on the order and the failures of the resolution speak of *)

\* the innermost error of a chain of wrapped errors
RECURSIVE RootErr(_)
RootErr(e) == IF e.inner = <<>> THEN e ELSE RootErr(e.inner[1])

\* the sub-search field searched under a noun
FieldOfNoun(noun) == CHOOSE field \in DOMAIN RoleNoun : RoleNoun[field] = noun

\* the messages choose wraps an error in (search.go:342, 346)
ChooseMessages == {"Error with %s sub-search: %s", "Error picking %s result: %s"}

\* an error is tagged down to its root: every wrapper is one of choose and
\* names a role
RECURSIVE Tagged(_)
Tagged(e) ==
    \/ e.inner = <<>>
    \/ /\ e.msg \in ChooseMessages
       /\ Len(e.text) = 1
       /\ e.text[1] \in {RoleNoun[field] : field \in DOMAIN RoleNoun}
       /\ Tagged(e.inner[1])

\* the sub-search fields the tags of an error name, the outermost first
RECURSIVE ErrPath(_)
ErrPath(e) ==
    IF e.inner = <<>> THEN <<>>
    ELSE <<FieldOfNoun(e.text[1])>> \o ErrPath(e.inner[1])

\* the last query sent to the database is that of the Searcher at path
LastQueried(path) == queried # <<>> /\ queried[Len(queried)] = path

\* C11: once the chooser has returned an error for a sub-search (at any
\* depth), every frame the error comes back to holds it tagged with the roles
\* from that frame down to the failing sub-search, no query is sent after the
\* failing sub-search's own, and Results of the top-level search returns no
\* rows and the error, tagged from the top-level sub-search's role down, without
\* the outer query ever being sent.
C11_ChooserErrorStopsSearch ==
    /\ \A k \in 1..Len(stack) :
         LET f == stack[k]
         IN (f.fn \in {"Results", "choose"} /\ RootErr(f.rv.err) = ChooserErr) =>
               /\ Tagged(f.rv.err)
               /\ f.fn = "Results" => f.rv.err.inner # <<>>
               /\ LastQueried(f.path \o ErrPath(f.rv.err))
    /\ (spc = "done" /\ RootErr(sret.err) = ChooserErr /\ sret.err # ChooserErr) =>
          /\ sret.rs = <<>>
          /\ Tagged(sret.err)
          /\ LastQueried(ErrPath(sret.err))
          /\ \A k \in 1..Len(queried) : queried[k] # <<>>

\* C11's case: the chooser failed for the movie sub-search of the TV show
\* sub-search, and Results of the top-level search has returned the error
C11_Witness ==
    /\ spc = "done"
    /\ sret.err = Err("Error with %s sub-search: %s", <<"TV show">>,
                      <<Err("Error picking %s result: %s", <<"movie">>,
                            <<ChooserErr>>)>>)
    /\ queried = <<<<"subTvshow", "subMovie">>>>

\* the order the claim gives: movie, tvshow, episode, actor
RoleOrder == <<"subMovie", "subTvshow", "subEpisode", "subActor">>

\* the Searchers of the tree of s in the order the claim gives: for each
\* Searcher its present sub-searches in RoleOrder, each with all below it
\* first, and then the Searcher itself
RECURSIVE DepthFirst(_, _)
RECURSIVE DepthFirstFrom(_, _, _)
DepthFirstFrom(s, path, j) ==
    IF j > Len(RoleOrder) THEN <<>>
    ELSE (IF s[RoleOrder[j]] = Nil THEN <<>>
          ELSE DepthFirst(s[RoleOrder[j]][1].s, Append(path, RoleOrder[j])))
         \o DepthFirstFrom(s, path, j + 1)

DepthFirst(s, path) == DepthFirstFrom(s, path, 1) \o <<path>>

IsPrefix(a, b) == Len(a) <= Len(b) /\ a = SubSeq(b, 1, Len(a))

\* the sub-search of s in field is present / has been given its id
Present(s, field) == s[field] # Nil
Resolved(s, field) == s[field] # Nil /\ s[field][1].id # 0

\* C12: the queries go to the database in the depth-first order of the tree
\* of sub-searches with the roles taken as movie, tvshow, episode, actor; a
\* Results that stands at one role has every present earlier role resolved
\* and no later one, and the one it stands at is resolved only when its choose
\* has returned without error; a Results that sends its query has every
\* present sub-search resolved.
C12_FixedOrderDepthFirst ==
    /\ IsPrefix(queried, DepthFirst(top, <<>>))
    /\ \A k \in 1..Len(stack) :
         LET f == stack[k]
             s == SearcherOf(f)
         IN f.fn = "Results" =>
              \A j \in 1..Len(RoleOrder) :
                 Present(s, RoleOrder[j]) =>
                    (Resolved(s, RoleOrder[j]) <=>
                       \/ f.pc = "query"
                       \/ j < f.i
                       \/ /\ j = f.i
                          /\ f.pc = "chose"
                          /\ k = Len(stack)
                          /\ spc = "run"
                          /\ f.rv.err = NoErr)

\* C12's case: all four roles are present, and Results has returned after the
\* five queries
C12_Witness ==
    /\ spc = "done"
    /\ sret.err = NoErr
    /\ queried = <<<<"subMovie">>, <<"subTvshow">>, <<"subEpisode">>,
                   <<"subActor">>, <<>>>>
    /\ \A j \in 1..Len(RoleOrder) : Resolved(top, RoleOrder[j])

\* the settings choose hands down
Settings(s) ==
    [goodThreshold |-> s.goodThreshold, chooser |-> s.chooser, debug |-> s.debug]

\* the sub-search (at a non-empty path) as New built it, before any choose
AsBuilt(path) == At(New(scfg.fuzzy, scfg.query).s[1], path)

\* C13: whenever Results or Pick runs on a sub-search, at any depth, the
\* sub-search's good-match threshold, chooser and debug flag are those of the
\* top-level Searcher, whatever New had given the sub-search.
C13_SettingsPropagated ==
    \A k \in 1..Len(stack) :
        LET f == stack[k]
        IN (f.path # <<>> /\ (f.fn \in {"Results", "Pick"} \/ f.pc # "start")) =>
              Settings(SearcherOf(f)) = Settings(top)

\* C13's case: the query '{tv:{debug} a}' with threshold 1.0 and a chooser;
\* the TV show sub-search, built with debug on, the default threshold and no
\* chooser, is about to be picked with the top-level Searcher's settings
C13_Witness ==
    \E k \in 1..Len(stack) :
        LET f == stack[k]
        IN /\ f.fn = "Pick"
           /\ f.path = <<"subTvshow">>
           /\ Settings(AsBuilt(f.path)) =
                [goodThreshold |-> defaultGoodThreshold, chooser |-> "nil",
                 debug |-> TRUE]
           /\ Settings(top) = [goodThreshold |-> 100, chooser |-> "set",
                               debug |-> FALSE]
           /\ Settings(SearcherOf(f)) = Settings(top)

----------------------------------------------------------------------------
(* What the claims on the sort directive and on the name query speak of *)

\* the call of New on a query whose last token is '{sort:value}' has returned
SortParsed == npc = "done" /\ nimpl = "New" /\ LastToken.kind = "dir"
              /\ LastToken.name = N_sort

\* the sort values of one column, and the direction the claim gives each:
\* year, rating, votes and billing descending, title, name and entity
\* ascending, a column with no default ("x", "1") ascending
DirectionAsStated ==
    (V_year :> N_desc) @@ (V_rating :> N_desc) @@ (V_votes :> N_desc)
    @@ (V_billing :> N_desc) @@ (V_title :> N_asc) @@ (V_name :> N_asc)
    @@ (V_entity :> N_asc) @@ (V_x :> N_asc) @@ (V_1 :> N_asc)

\* the same with rating and billing ascending, and rank descending
DirectionAmended ==
    (V_year :> N_desc) @@ (V_rank :> N_desc) @@ (V_votes :> N_desc)
    @@ (V_billing :> N_asc) @@ (V_rating :> N_asc) @@ (V_title :> N_asc)
    @@ (V_name :> N_asc) @@ (V_entity :> N_asc) @@ (V_x :> N_asc)
    @@ (V_1 :> N_asc)

\* the sort pairs of the Searcher New returned
ReturnedOrder == nret.s[1].order

\* what both statements say of a sort value, given the table of directions
SortAsTable(table) ==
    SortParsed =>
        LET v == LastToken.val
        IN /\ v.badSort =>
                /\ nret.s = Nil
                /\ nret.err = Err("Invalid sort format: '%s'", v.text, <<>>)
           /\ (~v.badSort /\ v.text \in DOMAIN table) =>
                /\ nret.err = NoErr
                /\ ReturnedOrder = <<[column |-> v.text, order |-> table[v.text]]>>
           /\ v.text = V_yeardesc =>
                /\ nret.err = NoErr
                /\ ReturnedOrder = <<[column |-> N_year, order |-> N_desc]>>

\* C16 as stated: a sort value of one column takes descending for year,
\* rating, votes and billing, ascending for title, name, entity and for a
\* column with no default; zero or more than two fields is an error.
C16_AsStated == SortAsTable(DirectionAsStated)

\* C16 amended: descending for year, rank and votes; ascending for billing,
\* name and entity, and for the columns with no default, rating and title
\* among them; zero or more than two fields is an error.
C16_SortDefaults == SortAsTable(DirectionAmended)

\* C16's case: '{sort:billing}' has been parsed, and billing sorts ascending
C16_Witness ==
    /\ SortParsed
    /\ LastToken.val.text = V_billing
    /\ nret.err = NoErr
    /\ ReturnedOrder = <<[column |-> N_billing, order |-> N_asc]>>

\* the tokens of the query that are not of the '{...}' form, as written
RECURSIVE FreeWords(_)
FreeWords(d) ==
    IF d = <<>> THEN <<>>
    ELSE (IF d[1].kind = "word" THEN <<RenderToken(d[1])>> ELSE <<>>)
         \o FreeWords(Tail(d))

\* C17: whenever New returns a Searcher, its name query is the tokens that are
\* not of the '{name}' or '{name:value}' form, joined by one space in their
\* order; no token of that form is part of it.
C17_NameQueryIsFreeText ==
    (npc = "done" /\ nimpl = "New" /\ nret.err = NoErr) =>
        nret.s[1].name = Join(FreeWords(ndesc))

\* the names New takes for a directive whatever the value (search.go:165-226)
HandledNames ==
    { N_debug, N_year, N_years, N_rank, N_rate, N_rating, N_votes, N_billing,
      N_billed, N_s, N_season, N_seasons, N_e, N_episodes, N_notv, N_novideo,
      N_movie, N_tv, N_tvshow, N_episode, N_actor, N_limit, N_sort }

\* the tokens New leaves to the name query: every word, and every '{...}'
\* token whose name New does not handle
RECURSIVE Unhandled(_)
Unhandled(d) ==
    IF d = <<>> THEN <<>>
    ELSE (IF d[1].kind = "word" \/ d[1].name \notin HandledNames
            THEN <<RenderToken(d[1])>> ELSE <<>>)
         \o Unhandled(Tail(d))

\* C17, of the words and of the directives New handles alone: the name query
\* is the words and the '{...}' tokens of a name New does not handle, in
\* their order
C17_OfHandledNames ==
    (npc = "done" /\ nimpl = "New" /\ nret.err = NoErr) =>
        nret.s[1].name = Join(Unhandled(ndesc))

----------------------------------------------------------------------------
(* C14: compiling twice *)

----------------------------------------------------------------------------
(* C15: ORDER BY *)

\* the sort pair a sort value of the query stands for
PairOf(v) ==
    IF v = V_yeardesc THEN [column |-> N_year, order |-> N_desc]
    ELSE [column |-> v, order |-> DirectionAmended[v]]

OnAllowList(pair) == pair.column \in DOMAIN qualifiedColumns

\* similarity leads: fuzzy matching is on, the name query is not empty and
\* holds no wildcard
FuzzyOrdering == cin.fuzzy /\ cin.name # <<>> /\ ~HasWildcard(cin.name[1].name)

\* C15: ORDER BY is similarity descending first when fuzzy matching is
\* active and the name query is not empty, then the sort pairs of the query
\* in their order, each with its allow-listed column; a pair whose column is
\* not on the allow-list adds no key and no error; with no fuzzy ordering and
\* no allow-listed pair there is no ORDER BY.
C15_OrderBy ==
    Len(compiled) > 0 =>
        LET ob == compiled[1].sql.orderby
            pairs == [i \in 1..Len(cin.sorts) |-> PairOf(cin.sorts[i])]
            user == SelectSeq(pairs, OnAllowList)
            rest == IF FuzzyOrdering /\ ob # <<>> THEN Tail(ob) ELSE ob
        IN /\ FuzzyOrdering =>
                /\ ob # <<>>
                /\ ob[1] = [column |-> "similarity", order |-> SimilarityOrder]
           /\ Len(rest) = Len(user)
           /\ \A i \in 1..Len(user) :
                /\ rest[i].column = qualifiedColumns[user[i].column]
                /\ rest[i].order = user[i].order
           /\ (~FuzzyOrdering /\ user = <<>>) => ob = <<>>

\* compiled with fuzzy ordering and the sort values "x" and "year desc":
\* similarity, then year, and nothing for "x"
C15_Witness ==
    /\ Len(compiled) > 0
    /\ FuzzyOrdering
    /\ cin.sorts = <<V_x, V_yeardesc>>
    /\ compiled[1].sql.orderby
         = << [column |-> "similarity", order |-> SimilarityOrder],
              [column |-> "year", order |-> N_desc] >>

----------------------------------------------------------------------------
(* C18: credit joins and credit columns *)

\* the roles of the query that are resolved
ActorResolved == cin.ids["subActor"] > 0
MediaResolved ==
    cin.ids["subMovie"] > 0 \/ cin.ids["subTvshow"] > 0 \/ cin.ids["subEpisode"] > 0

\* the aliases the statement joins credit as, in order
JoinedAliases(q) ==
    CASE Len(q.creditJoin) = 0 -> <<>>
      [] Len(q.creditJoin) = 1 -> <<q.creditJoin[1].alias>>
      [] OTHER -> <<q.creditJoin[1].alias, q.creditJoin[2].alias>>

\* the aliases the k-th credit column is read from, in order
ProjectedAliases(q, k) ==
    LET c == q.creditAttrs[k].coalesce
    IN CASE Len(c) = 0 -> <<>>
         [] Len(c) = 1 -> <<c[1].alias>>
         [] OTHER -> <<c[1].alias, c[2].alias>>

\* C18: the statement joins and projects c_actor alone when only an actor
\* sub-search is resolved, c_media alone when only a movie, tvshow or episode
\* sub-search is resolved, both under COALESCE when both are, and with neither
\* it joins nothing and the five credit columns are 0, 0, '', 0, ''.
C18_CreditsMatchRoles ==
    Len(compiled) > 0 =>
        LET q == compiled[1].sql
            want == (IF ActorResolved THEN <<"c_actor">> ELSE <<>>)
                    \o (IF MediaResolved THEN <<"c_media">> ELSE <<>>)
        IN /\ JoinedAliases(q) = want
           /\ Len(q.creditAttrs) = 5
           /\ \A k \in 1..5 : ProjectedAliases(q, k) = want
           /\ (~ActorResolved /\ ~MediaResolved) =>
                /\ q.creditJoin = <<>>
                /\ q.creditAttrs[1].default = "0" /\ q.creditAttrs[2].default = "0"
                /\ q.creditAttrs[3].default = "''" /\ q.creditAttrs[4].default = "0"
                /\ q.creditAttrs[5].default = "''"

\* compiled with an actor and a tvshow sub-search resolved and no movie
C18_Witness ==
    /\ Len(compiled) > 0
    /\ ActorResolved /\ cin.ids["subTvshow"] > 0 /\ cin.ids["subMovie"] = 0
    /\ JoinedAliases(compiled[1].sql) = <<"c_actor", "c_media">>
    /\ ProjectedAliases(compiled[1].sql, 1) = <<"c_actor", "c_media">>

----------------------------------------------------------------------------
(* C19: "{show:supernatural}{s:1}" *)

N_supernatural == <<"s", "u", "p", "e", "r", "n", "a", "t", "u", "r", "a", "l">>

\* the top-level Results of the show query is at its own query
ShowQueryCompiles ==
    /\ scfg.query = Q_show
    /\ spc = "run"
    /\ Running("Results", "query")
    /\ Cur.path = <<>>

\* C19: for "{show:supernatural}{s:1}" the tvshow sub-search named
\* "supernatural" is resolved before the outer statement is compiled, and the
\* outer statement is restricted to episodes, to season 1 and to the show's id
\* by e.tvshow_atom_id alone, with no credit join.
C19_ShowThenEpisodes ==
    ShowQueryCompiles =>
        LET q == sql(top)
        IN /\ top.subTvshow # Nil
           /\ top.subTvshow[1].s.name = N_supernatural
           /\ ~empty(top.subTvshow)
           /\ LastQueried(<<"subTvshow">>)
           /\ \E k \in 1..Len(q.where) :
                q.where[k].col = "entity" /\ q.where[k].in = <<"episode">>
           /\ \E k \in 1..Len(q.where) :
                /\ q.where[k].col = "e.season"
                /\ q.where[k].lo = 1 /\ q.where[k].hi = 1
           /\ \E k \in 1..Len(q.where) :
                /\ q.where[k].col = "e.tvshow_atom_id"
                /\ q.where[k].lo = top.subTvshow[1].id
                /\ q.where[k].orNotNull = ""
           /\ q.creditJoin = <<>>

\* what New makes of the query: the token "{show:supernatural}" is the name
\* query, season 1 is set, and the statement is compiled with no sub-search
\* and no query before it
C19_ShowIsNameText ==
    ShowQueryCompiles =>
        /\ top.subTvshow = Nil
        /\ top.season = Ptr([min |-> 1, max |-> 1])
        /\ top.name = SubSeq(Q_show, 1, 19)
        /\ top.entities = <<>>
        /\ queried = <<>>
        /\ sql(top).creditJoin = <<>>

----------------------------------------------------------------------------
(* C20: a range with its minimum above its maximum *)

\* Rows of the FROM clause of sql (search.go:652-658): name LEFT JOINed with
\* movie, tvshow, episode, actor and rating, one row per atom.  A row is of
\* one kind; it has a rating or none, and a credit row under each joined alias
\* or none.  The name predicate and the tv and video predicates pass the row.
CatalogRows ==
    [kind : {"movie", "tvshow", "episode", "actor"},
     year : {0, 2000},
     num : {1, 3},
     rated : BOOLEAN,
     credited : BOOLEAN]

\* the value of a column in a row, Nil for NULL
Col(row, col) ==
    CASE col = "COALESCE(m.year, t.year, e.year, 0)" ->
           Ptr(IF row.kind = "actor" THEN 0 ELSE row.year)
      [] col = "rating.rank" -> IF row.rated THEN Ptr(50) ELSE Nil
      [] col = "rating.votes" -> IF row.rated THEN Ptr(5) ELSE Nil
      [] col = "COALESCE(m.year, t.year, e.year)" ->
           IF row.kind = "actor" THEN Nil ELSE Ptr(row.year)
      [] col \in {"e.season", "e.episode_num"} ->
           IF row.kind = "episode" THEN Ptr(row.num) ELSE Nil
      [] col = "e.atom_id" -> IF row.kind = "episode" THEN Ptr(1) ELSE Nil
      [] col = "m.atom_id" -> IF row.kind = "movie" THEN Ptr(1) ELSE Nil
      [] col = "e.tvshow_atom_id" ->
           IF row.kind = "episode" THEN Ptr(AtomOf(2, 1)) ELSE Nil
      [] col \in {"c_media.actor_atom_id", "c_actor.media_atom_id"} ->
           IF row.credited THEN Ptr(1) ELSE Nil
      [] col \in {"c_media.position", "c_actor.position"} ->
           IF row.credited THEN Ptr(3) ELSE Nil
      [] OTHER -> Nil

\* a predicate of WHERE is true of a row; a comparison with NULL is not
Holds(c, row) ==
    LET v == Col(row, c.col)
    IN \/ CASE c.op = ">= AND <=" -> v # Nil /\ v[1] >= c.lo /\ v[1] <= c.hi
            [] c.op = "=" -> v # Nil /\ v[1] = c.lo
            [] c.op = "IS NOT NULL" -> v # Nil
            [] c.op = "IN" -> \E k \in 1..Len(c.in) : c.in[k] = row.kind
            [] OTHER -> TRUE
       \/ c.orNull # "" /\ Col(row, c.orNull) = Nil
       \/ c.orNotNull # "" /\ Col(row, c.orNotNull) # Nil

\* the row passes WHERE
Matches(w, row) == \A k \in 1..Len(w) : Holds(w[k], row)

\* the field of the Searcher a range directive is stored in
RangeField ==
    (N_years :> "year") @@ (N_rank :> "rating") @@ (N_votes :> "votes")
    @@ (N_seasons :> "season") @@ (N_s :> "season")
    @@ (N_episodes :> "episode") @@ (N_e :> "episode")
    @@ (N_billed :> "billing")

\* the query has been compiled and its range directive has min above max
InvertedCompiled ==
    /\ Len(compiled) > 0
    /\ Len(cin.ranges) = 1
    /\ cin.ranges[1].lo > cin.ranges[1].hi

\* C20 as stated: a range directive with its minimum above its maximum is
\* stored as given, compiles, and no row of any catalog passes the statement.
C20_AsStated ==
    InvertedCompiled =>
        LET r == cin.ranges[1]
        IN /\ cs[RangeField[r.name]] = Ptr([min |-> r.lo, max |-> r.hi])
           /\ \A row \in CatalogRows : ~Matches(compiled[1].sql.where, row)

\* C20 amended: a range directive with its minimum above its maximum is
\* stored as given and compiles; for years, rank and votes no row of any
\* catalog passes the statement, and for seasons and episodes no episode does.
C20_InvertedRange ==
    InvertedCompiled =>
        LET r == cin.ranges[1]
            w == compiled[1].sql.where
        IN /\ cs[RangeField[r.name]] = Ptr([min |-> r.lo, max |-> r.hi])
           /\ r.name \in {N_years, N_rank, N_votes} =>
                \A row \in CatalogRows : ~Matches(w, row)
           /\ r.name \in {N_seasons, N_s, N_episodes, N_e} =>
                \A row \in CatalogRows : Matches(w, row) => row.kind # "episode"

\* "{years:2020-1990}" alone has been compiled: the one predicate is on the
\* year, with the bounds as given
C20_Witness ==
    /\ InvertedCompiled
    /\ cin.ranges = <<RangeOf(N_years, 2020, 1990)>>
    /\ cs.year = Ptr([min |-> 2020, max |-> 1990])
    /\ cin.name = <<>> /\ cin.flags = <<>>
    /\ \A f \in DOMAIN cin.ids : cin.ids[f] = 0
    /\ Len(compiled[1].sql.where) = 1
    /\ compiled[1].sql.where[1].lo = 2020 /\ compiled[1].sql.where[1].hi = 1990

----------------------------------------------------------------------------
(* C21: season and episode ranges *)

\* the bounds of the query's range on season ("season") or on episode number
\* ("episode"), Nil without one
RangeOn(field) ==
    LET ks == {k \in 1..Len(cin.ranges) : RangeField[cin.ranges[k].name] = field}
    IN IF ks = {} THEN Nil ELSE Ptr(cin.ranges[CHOOSE k \in ks : TRUE])

\* the statement w has one predicate on col for the query's range on field,
\* and it passes every row that is no episode and exactly the episodes whose
\* number lies within the bounds
FiltersEpisodesOnly(w, field, col) ==
    RangeOn(field) # Nil =>
        /\ \E k \in 1..Len(w) : w[k].col = col
        /\ \A k \in 1..Len(w) : w[k].col = col =>
             \A row \in CatalogRows :
                Holds(w[k], row) <=>
                    \/ row.kind # "episode"
                    \/ /\ row.num >= RangeOn(field)[1].lo
                       /\ row.num <= RangeOn(field)[1].hi

\* C21 of New's package: the season and episode-number predicates pass every
\* row that is not an episode, and an episode exactly when its value lies in
\* the range.
C21_OfSearchPackage ==
    Len(compiled) > 0 =>
        /\ FiltersEpisodesOnly(compiled[1].sql.where, "season", "e.season")
        /\ FiltersEpisodesOnly(compiled[1].sql.where, "episode", "e.episode_num")

\* C21: in the statement of either package the season and episode-number
\* predicates pass every row that is not an episode, whatever the range, and
\* an episode row exactly when its value lies in the inclusive range.
C21_RangesFilterEpisodesOnly ==
    /\ C21_OfSearchPackage
    /\ lcompiled # Nil =>
        /\ FiltersEpisodesOnly(lcompiled[1].sql.where, "season", "e.season")
        /\ FiltersEpisodesOnly(lcompiled[1].sql.where, "episode", "e.episode_num")

----------------------------------------------------------------------------
(* C22: '{id:v}' and '{atom:v}' *)

\* New has returned from a query that ends in '{id:v}' or '{atom:v}'
IdParsed ==
    /\ npc = "done" /\ nimpl = "New"
    /\ LastToken.kind = "dir"
    /\ LastToken.name \in {N_id, N_atom}

\* C22: '{id:v}' and '{atom:v}' are never name text: with an integer v New
\* returns a Searcher whose name query is the free words alone, and with any
\* other v it returns the error 'Invalid integer ... for atom id' naming v.
C22_IdDirectiveNotFreeText ==
    IdParsed =>
        IF Atoi(LastToken.val.text).ok
          THEN /\ nret.err = NoErr
               /\ nret.s[1].name = Join(FreeWords(ndesc))
          ELSE /\ nret.s = Nil
               /\ nret.err = Err("Invalid integer '%s' for atom id: %s",
                                 LastToken.val.text, <<>>)

\* what New does with the token: no error whatever v is, and the token is
\* the last word of the name query
C22_IdIsNameText ==
    IdParsed =>
        /\ nret.err = NoErr
        /\ nret.s[1].name = Join(Unhandled(ndesc))
        /\ LET nm == nret.s[1].name
               t == RenderToken(LastToken)
           IN Len(nm) >= Len(t) /\ SubSeq(nm, Len(nm) - Len(t) + 1, Len(nm)) = t

----------------------------------------------------------------------------
(* C23: the threshold 1.0 *)

\* C23: with the threshold 1.0 and a chooser set, no call of Pick on two
\* results or more returns without having called the chooser.
C23_ThresholdOneAlwaysAsks ==
    \A k \in 1..Len(stack) :
        LET f == stack[k]
            s == SearcherOf(f)
        IN (/\ f.fn = "Pick"
            /\ f.pc = "ret"
            /\ s.goodThreshold = 100
            /\ s.chooser # "nil"
            /\ Len(f.rs) >= 2) =>
              Len(f.calls) = 1

\* the one list that is picked from without the chooser at threshold 1.0:
\* the first similarity is 1.0 and the second 0
C23_OnlyOneAndZero ==
    \A k \in 1..Len(stack) :
        LET f == stack[k]
            s == SearcherOf(f)
        IN (/\ f.fn = "Pick"
            /\ f.pc = "ret"
            /\ s.goodThreshold = 100
            /\ s.chooser # "nil"
            /\ Len(f.rs) >= 2
            /\ ~(f.rs[1].Similarity = 100 /\ f.rs[2].Similarity = 0)) =>
              Len(f.calls) = 1

----------------------------------------------------------------------------
(* C24: attribute rows of a list *)

\* the lines listLines gives to its function, in order
RECURSIVE DataFrom(_, _, _)
DataFrom(ls, k, inData) ==
    IF k > Len(ls) THEN <<>>
    ELSE IF ~inData THEN DataFrom(ls, k + 1, HasPrefix(ls[k], dataStart))
    ELSE IF HasPrefix(ls[k], dataEnd) THEN <<>>
    ELSE IF Contains(ls[k], SUSP) THEN DataFrom(ls, k + 1, TRUE)
    ELSE <<ls[k]>> \o DataFrom(ls, k + 1, TRUE)

\* the look-ups and the calls of do for the lines ls with the atom cur, when
\* a line that begins with a space or a tab is an attribute row
RECURSIVE AsRead(_, _)
AsRead(ls, cur) ==
    IF ls = <<>> THEN [looked |-> <<>>, calls |-> <<>>]
    ELSE LET r == attrRowAsRead(ls[1], cur)
             rest == AsRead(Tail(ls), r.current)
         IN [looked |-> r.looked \o rest.looked, calls |-> r.calls \o rest.calls]

\* C24: when the list has been read, do has been called once for every
\* non-empty attribute row (a line of the data section that begins with a
\* space or a tab) and once for an attribute after a tab on an entity line,
\* each time with the atom of the most recent entity line, except under an
\* entity with no atom; and only entity lines have been looked up.
C24_AttrRowsOfEntity ==
    lpc = "done" =>
        LET e == AsRead(DataFrom(llines, 1, FALSE), 0)
        IN /\ lcalls = e.calls
           /\ looked = e.looked

\* what listAttrRows does: every non-blank line of the data section is looked
\* up as an entity, the attribute rows among them, and do is called only for
\* an attribute on the entity's own line
C24_OnlyInlineAttrs ==
    /\ \A k \in 1..Len(lcalls) : lcalls[k].line # lcalls[k].row
    /\ lpc = "done" =>
         Len(looked) = Len(SelectSeq(DataFrom(llines, 1, FALSE),
                                     LAMBDA l : bytesTrimSpace(l) # <<>>))

----------------------------------------------------------------------------
(* C25: aliases of the credit table *)

\* the credit alias a column of the statement is read from, "" for a
\* column of the tables sql always joins
CreditAliasOf(col) ==
    CASE col \in {"c_media.actor_atom_id", "c_media.position"} -> "c_media"
      [] col \in {"c_actor.media_atom_id", "c_actor.position"} -> "c_actor"
      [] OTHER -> ""

\* the credit aliases the projection, WHERE and ORDER BY of q refer to
ProjectionAliases(q) ==
    UNION {{q.creditAttrs[k].coalesce[j].alias :
               j \in 1..Len(q.creditAttrs[k].coalesce)} :
             k \in 1..Len(q.creditAttrs)}
WhereAliases(q) ==
    UNION {{CreditAliasOf(q.where[k].col), CreditAliasOf(q.where[k].orNull),
            CreditAliasOf(q.where[k].orNotNull)} : k \in 1..Len(q.where)}
      \ {""}
OrderAliases(q) ==
    {CreditAliasOf(q.orderby[k].column) : k \in 1..Len(q.orderby)} \ {""}

\* the aliases q joins credit as
JoinAliases(q) == {q.creditJoin[k].alias : k \in 1..Len(q.creditJoin)}

\* C25: every credit alias the statement refers to in its projection, WHERE
\* or ORDER BY is joined by the statement, a sort by billing and a billing
\* range included.
C25_AliasesAreJoined ==
    Len(compiled) > 0 =>
        LET q == compiled[1].sql
        IN ProjectionAliases(q) \cup WhereAliases(q) \cup OrderAliases(q)
             \subseteq JoinAliases(q)

\* the same of the projection and of WHERE alone
C25_OfProjectionAndWhere ==
    Len(compiled) > 0 =>
        LET q == compiled[1].sql
        IN ProjectionAliases(q) \cup WhereAliases(q) \subseteq JoinAliases(q)

----------------------------------------------------------------------------
(* C26: the WHERE clause *)

\* every AND of the clause stands between two predicates
WellFormed(cl) ==
    \A k \in 1..Len(cl) :
        cl[k].kind = "AND" =>
            /\ k > 1 /\ cl[k - 1].kind = "pred"
            /\ k < Len(cl) /\ cl[k + 1].kind = "pred"

\* C26: in the statement of either package the WHERE clause is a well-formed
\* conjunction, every AND with a predicate on both sides, also for a query
\* with no constraint: the empty query, or sort, limit and debug alone.
C26_WhereWellFormed ==
    /\ Len(compiled) > 0 => WellFormed(compiled[1].sql.whereClause)
    /\ lcompiled # Nil => WellFormed(lcompiled[1].sql.whereClause)

\* the same of the queries with a constraint, one predicate at least from
\* where()
C26_WithAConstraint ==
    /\ (Len(compiled) > 0 /\ compiled[1].sql.where # <<>>) =>
          WellFormed(compiled[1].sql.whereClause)
    /\ (lcompiled # Nil /\ lcompiled[1].sql.where # <<>>) =>
          WellFormed(lcompiled[1].sql.whereClause)

----------------------------------------------------------------------------
(* C27: the arguments of the query *)

\* the statement refers to the placeholder $1
RefersToArg(q) ==
    \/ q.similarity.expr = "similarity(%s, $1)"
    \/ \E k \in 1..Len(q.where) : q.where[k].op \in {"% $1", "LIKE $1", "= $1"}

\* the name query of the input: its one word, or none
NameOfInput == IF cin.name = <<>> THEN <<>> ELSE cin.name[1].name

\* C27: the name query is passed as the one argument exactly when the
\* statement refers to $1, in the similarity column or the name predicate,
\* and no argument is passed exactly when it refers to none: for fuzzy,
\* exact and wildcard matching and for the empty name query.
C27_ArgsMatchPlaceholders ==
    \A k \in 1..Len(compiled) :
        LET q == compiled[k].sql
            args == compiled[k].args
        IN /\ RefersToArg(q) <=> args = <<NameOfInput>>
           /\ ~RefersToArg(q) <=> args = <<>>
           /\ RefersToArg(q) <=> NameOfInput # <<>>

\* compiled for the name "a%" with fuzzy matching on: the wildcard turns it
\* off, the name predicate is LIKE $1 and the one argument is "a%"
C27_Witness ==
    /\ Len(compiled) > 0
    /\ cin.fuzzy
    /\ cin.name = <<Word(<<"a", "%">>)>>
    /\ compiled[1].sql.similarity.expr = "-1"
    /\ \E k \in 1..Len(compiled[1].sql.where) :
          compiled[1].sql.where[k].op = "LIKE $1"
    /\ compiled[1].args = << <<"a", "%">> >>

----------------------------------------------------------------------------
(* C28: the entity of a resolved sub-search *)

\* the entity of each role
RoleEntity ==
    ("subMovie" :> "movie") @@ ("subTvshow" :> "tvshow")
    @@ ("subEpisode" :> "episode") @@ ("subActor" :> "actor")

\* the paths of the sub-searches, at depth one and two, that have their id
ResolvedPaths ==
    {<<f>> : f \in {g \in DOMAIN RoleEntity : Resolved(top, g)}}
    \cup UNION {{<<f, g>> : g \in {h \in DOMAIN RoleEntity :
                                       Resolved(top[f][1].s, h)}} :
                  f \in {g \in DOMAIN RoleEntity : Present(top, g)}}

\* the entities of the rows the statement of s can return
RowKinds(s) == {row.kind : row \in {r \in CatalogRows : Matches(where(s), r)}}

\* C28: a sub-search that has its id has it from a row of its role's entity:
\* its statement returns movies alone for the movie role, TV shows alone for
\* tvshow, episodes alone for episode and actors alone for actor, also when
\* its query holds entity directives.
C28_ResolvedIdIsOfRole ==
    \A path \in ResolvedPaths :
        RowKinds(SubAt(top, path).s) \subseteq {RoleEntity[path[Len(path)]]}

\* the same of the sub-searches whose query holds no entity directive
C28_WithoutEntityDirective ==
    \A path \in ResolvedPaths :
        SubAt(top, path).s.entities = <<RoleEntity[path[Len(path)]]>> =>
            RowKinds(SubAt(top, path).s) \subseteq {RoleEntity[path[Len(path)]]}

----------------------------------------------------------------------------
(* C29: several media sub-searches *)

\* the id of the first resolved media role of the input in the order movie,
\* tvshow, episode; 0 with none
MediaIdOfInput ==
    IF cin.ids["subMovie"] > 0 THEN AtomOf(1, cin.ids["subMovie"])
    ELSE IF cin.ids["subTvshow"] > 0 THEN AtomOf(2, cin.ids["subTvshow"])
    ELSE IF cin.ids["subEpisode"] > 0 THEN AtomOf(3, cin.ids["subEpisode"])
    ELSE 0

\* the predicates of WHERE on the media credit or on the show of an episode
MediaPredicates(q) ==
    {k \in 1..Len(q.where) :
        \/ q.where[k].col \in {"c_media.actor_atom_id", "e.tvshow_atom_id"}
        \/ q.where[k].orNotNull = "c_media.actor_atom_id"}

\* C29: with one media sub-search or more resolved, one media id constrains
\* the statement, that of the movie before the TV show before the episode:
\* credit is joined as c_media on that id, WHERE has one media predicate (on
\* no other id) and the credit columns read c_media; with none resolved there
\* is no such join, predicate or column.
C29_OneMediaId ==
    Len(compiled) > 0 =>
        LET q == compiled[1].sql
            joins == {k \in 1..Len(q.creditJoin) : q.creditJoin[k].alias = "c_media"}
        IN /\ Cardinality(joins) = IF MediaIdOfInput # 0 THEN 1 ELSE 0
           /\ \A k \in joins : q.creditJoin[k].id = MediaIdOfInput
           /\ Cardinality(MediaPredicates(q)) = Cardinality(joins)
           /\ \A k \in MediaPredicates(q) :
                q.where[k].col = "e.tvshow_atom_id" =>
                    /\ q.where[k].lo = MediaIdOfInput
                    /\ cin.ids["subMovie"] = 0
           /\ "c_media" \in ProjectionAliases(q) <=> joins # {}

\* compiled with a movie, a TV show and an episode resolved: the join is on
\* the movie's id and the one media predicate is on the credit
C29_Witness ==
    /\ Len(compiled) > 0
    /\ cin.ids["subMovie"] > 0 /\ cin.ids["subTvshow"] > 0
    /\ cin.ids["subEpisode"] > 0
    /\ \E k \in 1..Len(compiled[1].sql.creditJoin) :
          /\ compiled[1].sql.creditJoin[k].alias = "c_media"
          /\ compiled[1].sql.creditJoin[k].id = AtomOf(1, cin.ids["subMovie"])
    /\ Cardinality(MediaPredicates(compiled[1].sql)) = 1

----------------------------------------------------------------------------
(* C30: the tokens are the query less its depth-zero spaces *)

\* C30: for every query, no token is empty, and the tokens in order (with the
\* buffer, while the loop runs) are the runes read so far less the spaces read
\* at depth zero: every other rune, a space read at a depth above or below
\* zero included, is there once and in its place.
C30_TokensAreQueryLessTopSpaces ==
    /\ \A k \in 1..Len(tokens) : Len(tokens[k]) > 0
    /\ tpc = "loop"
       => Flatten(tokens) \o buf = DropTopSpaces(query, pos - 1)
    /\ tpc = "done"
       => Flatten(tokens) = DropTopSpaces(query, Len(query))

\* a query has been tokenized that has a space read at depth zero (dropped),
\* one read inside a brace and one read at a negative depth (both kept)
C30_Witness ==
    /\ tpc = "done"
    /\ query = <<SP, LB, SP, RB, RB, SP>>
    /\ tokens = << <<LB, SP, RB>>, <<RB, SP>> >>

====
